---- MODULE Spec2Model ----
(***************************************************************************)
(* Security middleware of the ConversaAI front end                         *)
(* (src/frontend/src/types/api.ts, lines 317-650): the in-memory rate      *)
(* limiter, the one-time CSRF token set, origin validation and the         *)
(* onRequest pipeline that calls them.                                     *)
(* The sanitizers and the field validator of the validation module        *)
(* (src/unnamed/part_004, lines 283-419) are modelled beside them, and so  *)
(* are the client's auth store (src/unnamed/part_003), its analytics store *)
(* (src/unnamed/part_001) and withRetry (src/unnamed/part_006).            *)
(*                                                                         *)
(* Strings the code inspects (paths, rate-limit keys) are sequences of     *)
(* one-character strings, so that startsWith / includes / concatenation    *)
(* are computed and not assumed.                                           *)
(***************************************************************************)
EXTENDS Integers, Sequences, FiniteSets, TLC

VARIABLES
    now,             \* Date.now(), in clock units
    rateLimitStore,  \* Map<string, {count, resetTime}>   (api.ts:322)
    rlT0,            \* history: per key, time of the call that opened the running window
    rlN,             \* history: per key, calls made since that opening call (capped)
    rlLast,          \* history: the checkRateLimit call made by the last step, if any
    rlBlocked,       \* history: per key, the reset time its last rejection returned, until a call is allowed
    csrfTokens,      \* Set<string> (api.ts:325), in insertion order
    uuidCount,       \* number of crypto.randomUUID() values drawn so far
    csrfEvicted,     \* history: tokens removed by generateCSRFToken's clean-up
    csrfHist,        \* history: per probed token, the validateCSRFToken calls made on it
    cfg,             \* the configuration the process was started with (config.ts)
    requests,        \* per slot, the onRequest invocation in flight and where it is suspended
    mwLast,          \* history: the request the last step completed, if any
    pureCall,        \* the call of a pure function made by the last step, with its result
    authState,       \* the auth store's state (part_003:32-37)
    authTasks,       \* per slot, the async auth action in flight and the await it is suspended at
    analyticsState,  \* the analytics store's state (part_001:35-39)
    analyticsTasks,  \* the refreshAll call in flight: its two fetches and what they did
    retryRun         \* the withRetry call in flight: loop counter, position, attempts made

rlVars == <<now, rateLimitStore, rlT0, rlN, rlLast, rlBlocked>>
csrfVars == <<csrfTokens, uuidCount, csrfEvicted, csrfHist>>
mwVars == <<cfg, requests, mwLast>>
serverVars == <<now, rateLimitStore, rlT0, rlN, rlLast, rlBlocked,
                csrfTokens, uuidCount, csrfEvicted, csrfHist,
                cfg, requests, mwLast, pureCall>>
clientVars == <<authState, authTasks, analyticsState, analyticsTasks, retryRun>>
vars == <<now, rateLimitStore, rlT0, rlN, rlLast, rlBlocked,
          csrfTokens, uuidCount, csrfEvicted, csrfHist,
          cfg, requests, mwLast, pureCall,
          authState, authTasks, analyticsState, analyticsTasks, retryRun>>

-----------------------------------------------------------------------------
(* Bounds of the model *)

\* the clock runs from 0 to MaxTime
MaxTime == 8
\* config.rateLimiting.loginWindowMs (PUBLIC_LOGIN_WINDOW_MS), in clock units
loginWindowMs == 3

\* invocations of onRequest that can be in flight at once
NSlots == 2
\* tokens the middleware issues in the middleware's specifications
MaxIssued == 1
\* tokens generateCSRFToken is called for in the token manager's specification
MaxGenerated == 103
\* the tokens 1..NProbe (and the never-issued token 0) are presented for validation
NProbe == 3

Slots == 1..NSlots

(* Program constants *)

\* "keep last 100": csrfTokens.size > 100, tokensArray.length - 100
CsrfKeep == 100

\* config.rateLimiting.loginAttempts: parseInt(PUBLIC_LOGIN_MAX_ATTEMPTS || '5')
loginAttempts == 5

-----------------------------------------------------------------------------
(* Strings *)

\* an absent header: headers.get() returns null, and every use the code makes
\* of a header value is a truthiness test, under which null and '' agree
None == <<>>

\* '/login'
PathLogin ==
    <<"/", "l", "o", "g", "i", "n">>
\* '/api/v1'
PathApi ==
    <<"/", "a", "p", "i", "/", "v", "1">>
\* '/dashboard'
PathDashboard ==
    <<"/", "d", "a", "s", "h", "b", "o", "a", "r", "d">>
\* '/about'
PathAbout ==
    <<"/", "a", "b", "o", "u", "t">>
\* '/login.js'
PathScript ==
    <<"/", "l", "o", "g", "i", "n", ".", "j", "s">>
\* '10.0.0.1'
IpA ==
    <<"1", "0", ".", "0", ".", "0", ".", "1">>
\* '10.0.0.2'
IpB ==
    <<"1", "0", ".", "0", ".", "0", ".", "2">>
\* '/_astro/'
StrAstro ==
    <<"/", "_", "a", "s", "t", "r", "o", "/">>
\* '/favicon'
StrFavicon ==
    <<"/", "f", "a", "v", "i", "c", "o", "n">>
\* '/login'
StrLogin ==
    <<"/", "l", "o", "g", "i", "n">>
\* '/register'
StrRegister ==
    <<"/", "r", "e", "g", "i", "s", "t", "e", "r">>
\* '/api/'
StrApi ==
    <<"/", "a", "p", "i", "/">>
\* '/auth/'
StrAuth ==
    <<"/", "a", "u", "t", "h", "/">>
\* '/dashboard'
StrDashboard ==
    <<"/", "d", "a", "s", "h", "b", "o", "a", "r", "d">>
\* 'http://'
StrHttp ==
    <<"h", "t", "t", "p", ":", "/", "/">>
\* 'https://'
StrHttps ==
    <<"h", "t", "t", "p", "s", ":", "/", "/">>
\* 'application/x-www-form-urlencoded'
StrFormUrlencoded ==
    <<"a", "p", "p", "l", "i", "c", "a", "t", "i", "o", "n", "/", "x", "-", "w", "w", "w", "-", "f", "o", "r", "m", "-", "u", "r", "l", "e", "n", "c", "o", "d", "e", "d">>
\* '127.0.0.1'
StrLoopback ==
    <<"1", "2", "7", ".", "0", ".", "0", ".", "1">>
\* 'http://localhost:4321'
OriginLocal4321 ==
    <<"h", "t", "t", "p", ":", "/", "/", "l", "o", "c", "a", "l", "h", "o", "s", "t", ":", "4", "3", "2", "1">>
\* 'http://localhost:3000'
OriginLocal3000 ==
    <<"h", "t", "t", "p", ":", "/", "/", "l", "o", "c", "a", "l", "h", "o", "s", "t", ":", "3", "0", "0", "0">>
\* 'http://127.0.0.1:4321'
OriginLoop4321 ==
    <<"h", "t", "t", "p", ":", "/", "/", "1", "2", "7", ".", "0", ".", "0", ".", "1", ":", "4", "3", "2", "1">>
\* 'http://127.0.0.1:3000'
OriginLoop3000 ==
    <<"h", "t", "t", "p", ":", "/", "/", "1", "2", "7", ".", "0", ".", "0", ".", "1", ":", "3", "0", "0", "0">>
\* 'http://192.168.1.7:4321'
OriginLan4321 ==
    <<"h", "t", "t", "p", ":", "/", "/", "1", "9", "2", ".", "1", "6", "8", ".", "1", ".", "7", ":", "4", "3", "2", "1">>
\* 'http://192.168.56.1:4321'
OriginVbox4321 ==
    <<"h", "t", "t", "p", ":", "/", "/", "1", "9", "2", ".", "1", "6", "8", ".", "5", "6", ".", "1", ":", "4", "3", "2", "1">>
\* 'http://evil.test'
OriginEvil ==
    <<"h", "t", "t", "p", ":", "/", "/", "e", "v", "i", "l", ".", "t", "e", "s", "t">>
\* 'http://localhost:4321/login'
RefererLocal ==
    <<"h", "t", "t", "p", ":", "/", "/", "l", "o", "c", "a", "l", "h", "o", "s", "t", ":", "4", "3", "2", "1", "/", "l", "o", "g", "i", "n">>
\* 'http://evil.test/x'
RefererEvil ==
    <<"h", "t", "t", "p", ":", "/", "/", "e", "v", "i", "l", ".", "t", "e", "s", "t", "/", "x">>
\* 'not a url'
RefererMalformed ==
    <<"n", "o", "t", " ", "a", " ", "u", "r", "l">>
\* 'Bearer t'
AuthBearer ==
    <<"B", "e", "a", "r", "e", "r", " ", "t">>
\* 'Basic x'
AuthBasic ==
    <<"B", "a", "s", "i", "c", " ", "x">>
\* 'application/json'
ContentJson ==
    <<"a", "p", "p", "l", "i", "c", "a", "t", "i", "o", "n", "/", "j", "s", "o", "n">>
\* 'application/x-www-form-urlencoded; charset=UTF-8'
ContentForm ==
    <<"a", "p", "p", "l", "i", "c", "a", "t", "i", "o", "n", "/", "x", "-", "w", "w", "w", "-", "f", "o", "r", "m", "-", "u", "r", "l", "e", "n", "c", "o", "d", "e", "d", ";", " ", "c", "h", "a", "r", "s", "e", "t", "=", "U", "T", "F", "-", "8">>
\* the alternatives of /\.(js|css|png|jpg|jpeg|gif|svg|ico|woff|woff2|ttf)$/
StaticSuffixes ==
    {<<".", "j", "s">>,
     <<".", "c", "s", "s">>,
     <<".", "p", "n", "g">>,
     <<".", "j", "p", "g">>,
     <<".", "j", "p", "e", "g">>,
     <<".", "g", "i", "f">>,
     <<".", "s", "v", "g">>,
     <<".", "i", "c", "o">>,
     <<".", "w", "o", "f", "f">>,
     <<".", "w", "o", "f", "f", "2">>,
     <<".", "t", "t", "f">>}

\* s.startsWith(p)
StartsWith(s, p) == Len(p) <= Len(s) /\ SubSeq(s, 1, Len(p)) = p

\* s ends with p (a pattern anchored by $)
EndsWith(s, p) == Len(p) <= Len(s) /\ SubSeq(s, Len(s) - Len(p) + 1, Len(s)) = p

\* s.includes(p)
Includes(s, p) == \E i \in 1..(Len(s) - Len(p) + 1) : SubSeq(s, i, i + Len(p) - 1) = p

\* the position of the first c in s from position i on, Len(s) + 1 when there is none
RECURSIVE IndexFrom(_, _, _)
IndexFrom(s, c, i) ==
    IF i > Len(s) THEN Len(s) + 1
    ELSE IF s[i] = c THEN i
    ELSE IndexFrom(s, c, i + 1)

\* s.split(c)[0]
SplitFirst(s, c) == SubSeq(s, 1, IndexFrom(s, c, 1) - 1)

\* identities and routes the rate limiter is called with
Identities == {IpA, IpB}
Routes == {PathLogin}

-----------------------------------------------------------------------------
(* Rate limiter: checkRateLimit, api.ts:349-375 *)

NoEntry == [count |-> 0, resetTime |-> -1]
NoResetTime == -1

\* const key = `${ip}:${endpoint}`
RateKey(ip, endpoint) == ip \o <<":">> \o endpoint

\* rateLimitStore.get(key); NoEntry stands for undefined
StoreGet(store, key) == IF key \in DOMAIN store THEN store[key] ELSE NoEntry

\* rateLimitStore.set(key, entry)
StoreSet(store, key, entry) ==
    [k \in DOMAIN store \cup {key} |-> IF k = key THEN entry ELSE store[k]]

\* faulty variant: the window already expires at resetTime
WindowExpired_Mut(current, t) == t >= current.resetTime

\* now > current.resetTime
WindowExpired(current, t) == t > current.resetTime

\* faulty variant: one attempt too many (> for >=)
LimitReached_Mut(current) == current.count > loginAttempts

\* current.count >= maxAttempts
LimitReached(current) == current.count >= loginAttempts

\* faulty variant: the opening call is not counted
FreshEntry_Mut(t) == [count |-> 0, resetTime |-> t + loginWindowMs]

\* { count: 1, resetTime: now + windowMs }
FreshEntry(t) == [count |-> 1, resetTime |-> t + loginWindowMs]

\* faulty variant: an allowed call pushes the window end
IncrementedEntry_Mut(current) == [count |-> current.count + 1, resetTime |-> current.resetTime + 1]

\* current.count++
IncrementedEntry(current) == [count |-> current.count + 1, resetTime |-> current.resetTime]

\* faulty variant: a rejected call restarts the window of the blocked key
checkRateLimit_Mut(store, ip, endpoint, t) ==
    LET key == RateKey(ip, endpoint)
        current == StoreGet(store, key)
    IN  IF current = NoEntry \/ WindowExpired(current, t)
        THEN [allowed |-> TRUE, resetTime |-> NoResetTime,
              store |-> StoreSet(store, key, FreshEntry(t))]
        ELSE IF LimitReached(current)
        THEN [allowed |-> FALSE, resetTime |-> t + loginWindowMs,
              store |-> StoreSet(store, key, [current EXCEPT !.resetTime = t + loginWindowMs])]
        ELSE [allowed |-> TRUE, resetTime |-> NoResetTime,
              store |-> StoreSet(store, key, IncrementedEntry(current))]

\* the value returned by checkRateLimit and the store it leaves behind
checkRateLimit(store, ip, endpoint, t) ==
    LET key == RateKey(ip, endpoint)
        current == StoreGet(store, key)
    IN  IF current = NoEntry \/ WindowExpired(current, t)
        THEN [allowed |-> TRUE, resetTime |-> NoResetTime,
              store |-> StoreSet(store, key, FreshEntry(t))]
        ELSE IF LimitReached(current)
        THEN [allowed |-> FALSE, resetTime |-> current.resetTime, store |-> store]
        ELSE [allowed |-> TRUE, resetTime |-> NoResetTime,
              store |-> StoreSet(store, key, IncrementedEntry(current))]

-----------------------------------------------------------------------------
(* History of the rate limiter, kept beside the code's state.  It follows   *)
(* the wall clock only: a window is opened by the first call for a key and  *)
(* by the first call made later than windowMs after the opening call.       *)

NoCall == [made |-> FALSE]
\* the pure-function harness is at rest
NoPureCall == [op |-> "none"]
NeverOpened == NoResetTime
CallCap == loginAttempts + 2

HistGet(f, key, default) == IF key \in DOMAIN f THEN f[key] ELSE default

OpensWindow(key, t) ==
    \/ HistGet(rlT0, key, NeverOpened) = NeverOpened
    \/ t > HistGet(rlT0, key, NeverOpened) + loginWindowMs

Min(a, b) == IF a < b THEN a ELSE b

RecordCall(key, t, r) ==
    /\ rlT0' = StoreSet(rlT0, key, IF OpensWindow(key, t) THEN t ELSE rlT0[key])
    /\ rlN' = StoreSet(rlN, key, IF OpensWindow(key, t) THEN 1
                                  ELSE Min(rlN[key] + 1, CallCap))
    /\ rlBlocked' = StoreSet(rlBlocked, key, IF r.allowed THEN NoResetTime ELSE r.resetTime)
    /\ rlLast' = [made |-> TRUE, key |-> key, opened |-> OpensWindow(key, t),
                  allowed |-> r.allowed, resetTime |-> r.resetTime,
                  blockedUntil |-> HistGet(rlBlocked, key, NoResetTime),
                  before |-> StoreGet(rateLimitStore, key),
                  after |-> StoreGet(r.store, key)]

-----------------------------------------------------------------------------
(* CSRF token manager: generateCSRFToken / validateCSRFToken, api.ts:377-399 *)
(* A JavaScript Set iterates in insertion order, so the set is a sequence    *)
(* without repetitions.                                                      *)

Range(seq) == {seq[i] : i \in 1..Len(seq)}

\* crypto.randomUUID(): a value never drawn before; the n-th draw is n
randomUUID(drawn) == drawn + 1

\* a token value no generateCSRFToken call ever returned
BogusToken == 0

\* csrfTokens.add(token)
SetAdd(tokens, token) == IF token \in Range(tokens) THEN tokens ELSE Append(tokens, token)

\* csrfTokens.delete(token)
SetDelete(tokens, token) == SelectSeq(tokens, LAMBDA x : x # token)

\* faulty variant: the newest tokens are dropped (slice(100))
TokensToRemove_Mut(tokensArray) ==
    SubSeq(tokensArray, CsrfKeep + 1, Len(tokensArray))

\* tokensArray.slice(0, tokensArray.length - 100)
TokensToRemove(tokensArray) ==
    SubSeq(tokensArray, 1, Len(tokensArray) - CsrfKeep)

\* the set after generateCSRFToken() has added the token and cleaned up
generateCSRFToken(tokens, token) ==
    LET added == SetAdd(tokens, token)
    IN  IF Len(added) > CsrfKeep
        THEN LET toRemove == Range(TokensToRemove(added))
             IN  SelectSeq(added, LAMBDA x : x \notin toRemove)
        ELSE added

\* faulty variant: a valid token stays in the set
ConsumeToken_Mut(tokens, token) == tokens

\* csrfTokens.delete(token); // One-time use
ConsumeToken(tokens, token) == SetDelete(tokens, token)

\* the value returned by validateCSRFToken and the set it leaves behind
validateCSRFToken(tokens, token) ==
    LET isValid == token \in Range(tokens)
    IN  [isValid |-> isValid,
         tokens |-> IF isValid THEN ConsumeToken(tokens, token) ELSE tokens]

(* History of the validations of an issued token: the number of calls       *)
(* (capped at 2), the result of the first one, whether a later one returned *)
(* true.  Validations of the never-issued token are not recorded.           *)

NoValidation == [calls |-> 0, first |-> FALSE, laterTrue |-> FALSE]

RecordValidation(hist, token, isValid) ==
    LET h == IF token \in DOMAIN hist THEN hist[token] ELSE NoValidation
        h2 == IF h.calls = 0
              THEN [calls |-> 1, first |-> isValid, laterTrue |-> FALSE]
              ELSE [calls |-> 2, first |-> h.first, laterTrue |-> h.laterTrue \/ isValid]
    IN  IF token = BogusToken THEN hist
        ELSE [t \in DOMAIN hist \cup {token} |-> IF t = token THEN h2 ELSE hist[t]]

-----------------------------------------------------------------------------
(* Requests, configuration and the pure helpers of the middleware *)

\* a request without X-CSRF-Token header / csrf_token parameter
AbsentToken == -1

Methods == {"GET", "POST", "PUT", "DELETE", "PATCH", "OPTIONS"}

\* config.security.allowedOrigins when PUBLIC_ALLOWED_ORIGINS is not set
DefaultAllowedOrigins ==
    <<OriginLocal4321, OriginLocal3000, OriginLoop4321, OriginLoop3000,
      OriginLan4321, OriginVbox4321>>

\* the part of config the middleware reads
Config(isProd, enableCSRF, enableRateLimiting, allowedOrigins) ==
    [isProd |-> isProd, enableCSRF |-> enableCSRF,
     enableRateLimiting |-> enableRateLimiting, allowedOrigins |-> allowedOrigins]

\* faulty variant: x-real-ip is looked at before cf-connecting-ip
getClientIP_Mut(req) ==
    IF req.xRealIp # None THEN req.xRealIp
    ELSE IF req.cfConnectingIp # None THEN req.cfConnectingIp
    ELSE IF SplitFirst(req.xForwardedFor, ",") # None THEN SplitFirst(req.xForwardedFor, ",")
    ELSE IF req.xClientIp # None THEN req.xClientIp
    ELSE StrLoopback

\* headers.get(a) || headers.get(b) || ... || '127.0.0.1'
getClientIP(req) ==
    IF req.cfConnectingIp # None THEN req.cfConnectingIp
    ELSE IF req.xRealIp # None THEN req.xRealIp
    ELSE IF SplitFirst(req.xForwardedFor, ",") # None THEN SplitFirst(req.xForwardedFor, ",")
    ELSE IF req.xClientIp # None THEN req.xClientIp
    ELSE StrLoopback

\* the static-asset test of onRequest
IsStaticAsset(pathname) ==
    \/ StartsWith(pathname, StrAstro)
    \/ StartsWith(pathname, StrFavicon)
    \/ \E suffix \in StaticSuffixes : EndsWith(pathname, suffix)

\* faulty variant: every path is rate limited
IsSensitive_Mut(pathname) == Len(pathname) >= 0

\* sensitiveEndpoints.some(endpoint => pathname.includes(endpoint))
IsSensitive(pathname) ==
    \E endpoint \in {StrLogin, StrRegister, StrApi, StrAuth} : Includes(pathname, endpoint)

\* faulty variant: PATCH is forgotten
IsStateChanging_Mut(method) == method \in {"POST", "PUT", "DELETE"}

\* ['POST', 'PUT', 'DELETE', 'PATCH'].includes(method)
IsStateChanging(method) == method \in {"POST", "PUT", "DELETE", "PATCH"}

\* "Skip CSRF for API requests with proper authentication"
SkipsCsrf(req) == StartsWith(req.pathname, StrApi) /\ req.authorization # None

\* the conditions under which onRequest enters its CSRF check
CsrfRequired(c, req) ==
    /\ c.isProd
    /\ c.enableCSRF
    /\ IsStateChanging(req.method)
    /\ ~SkipsCsrf(req)

\* request.headers.get('x-csrf-token') || url.searchParams.get('csrf_token')
PresentedToken(req) ==
    IF req.csrfHeader # AbsentToken THEN req.csrfHeader ELSE req.csrfQuery

\* faulty variant: the method is not looked at
ShouldIssueToken_Mut(c, req) ==
    /\ c.enableCSRF
    /\ \E page \in {StrLogin, StrRegister, StrDashboard} : Includes(req.pathname, page)

\* the condition under which onRequest adds a CSRF token to the response
ShouldIssueToken(c, req) ==
    /\ c.enableCSRF
    /\ req.method = "GET"
    /\ \E page \in {StrLogin, StrRegister, StrDashboard} : Includes(req.pathname, page)

\* method === 'POST' && content-type?.includes('application/x-www-form-urlencoded')
IsFormPost(req) ==
    /\ req.method = "POST"
    /\ Includes(req.contentType, StrFormUrlencoded)

(* new URL(referer).origin.  A string without a scheme is no URL (TypeError);  *)
(* an http(s) URL needs a host, and its origin is scheme://host[:port]; the    *)
(* origin of a URL of another scheme is the string 'null'.                     *)

Letters ==
    {"a", "b", "c", "d", "e", "f", "g", "h", "i", "j", "k", "l", "m",
     "n", "o", "p", "q", "r", "s", "t", "u", "v", "w", "x", "y", "z",
     "A", "B", "C", "D", "E", "F", "G", "H", "I", "J", "K", "L", "M",
     "N", "O", "P", "Q", "R", "S", "T", "U", "V", "W", "X", "Y", "Z"}
SchemeChars == Letters \cup {"0", "1", "2", "3", "4", "5", "6", "7", "8", "9", "+", "-", "."}

StrNullOrigin == <<"n", "u", "l", "l">>

HasScheme(s) ==
    LET colon == IndexFrom(s, ":", 1)
    IN  /\ 1 < colon
        /\ colon <= Len(s)
        /\ s[1] \in Letters
        /\ \A j \in 2..(colon - 1) : s[j] \in SchemeChars

IsHttpUrl(s) == StartsWith(s, StrHttp) \/ StartsWith(s, StrHttps)

AuthorityStart(s) == IF StartsWith(s, StrHttps) THEN Len(StrHttps) + 1 ELSE Len(StrHttp) + 1

\* does new URL(s) return (instead of throwing a TypeError)
URLParses(s) ==
    /\ HasScheme(s)
    /\ IsHttpUrl(s) => IndexFrom(s, "/", AuthorityStart(s)) > AuthorityStart(s)

\* new URL(s).origin, for an s that parses
URLOrigin(s) ==
    IF IsHttpUrl(s)
    THEN SubSeq(s, 1, IndexFrom(s, "/", AuthorityStart(s)) - 1)
    ELSE StrNullOrigin

\* validateOrigin(request): the value returned, or threw = TRUE when
\* new URL(referer) throws
validateOrigin(req, allowedOrigins) ==
    IF req.origin = None /\ req.referer = None
    THEN [threw |-> FALSE, value |-> TRUE]
    ELSE IF Len(allowedOrigins) = 0
    THEN [threw |-> FALSE, value |-> TRUE]
    ELSE IF req.origin # None
    THEN [threw |-> FALSE, value |-> req.origin \in Range(allowedOrigins)]
    ELSE IF URLParses(req.referer)
    THEN [threw |-> FALSE, value |-> URLOrigin(req.referer) \in Range(allowedOrigins)]
    ELSE [threw |-> TRUE, value |-> FALSE]

-----------------------------------------------------------------------------
(* Sanitizers: sanitizeInput (api.ts:416-423) and the Validator's           *)
(* sanitizeString / sanitizeEmail (part_004:309-328).  Each step of the      *)
(* method chain is an operator; a chain is their composition in the order    *)
(* the source applies them.                                                  *)

\* the end of .slice(0, 10000), scaled down to the lengths of the inputs tried
SanitizedMaxLength == 12

\* the end of .slice(0, 254) in sanitizeEmail
EmailMaxLength == 254

\* characters String.prototype.trim removes (those that occur in the inputs)
WhiteSpace == {" ", "\t", "\n"}

Digits == {"0", "1", "2", "3", "4", "5", "6", "7", "8", "9"}

\* \w
WordChars == Letters \cup Digits \cup {"_"}

UpperCase ==
    <<"A", "B", "C", "D", "E", "F", "G", "H", "I", "J", "K", "L", "M",
      "N", "O", "P", "Q", "R", "S", "T", "U", "V", "W", "X", "Y", "Z">>
LowerCase ==
    <<"a", "b", "c", "d", "e", "f", "g", "h", "i", "j", "k", "l", "m",
      "n", "o", "p", "q", "r", "s", "t", "u", "v", "w", "x", "y", "z">>

\* one character under the i flag of a pattern of ASCII letters
LowerChar(c) ==
    IF \E i \in 1..Len(UpperCase) : UpperCase[i] = c
    THEN LowerCase[CHOOSE i \in 1..Len(UpperCase) : UpperCase[i] = c]
    ELSE c

\* characters outside ASCII, written by their code points: E WITH ACUTE in
\* both cases, I WITH DOT ABOVE, COMBINING DOT ABOVE
CharUpperEAcute == "U+00C9"
CharLowerEAcute == "U+00E9"
CharUpperIDot == "U+0130"
CharCombiningDot == "U+0307"

\* what toLowerCase() puts in the place of one character: I WITH DOT ABOVE
\* becomes two characters
LowerCaseOf(c) ==
    IF c = CharUpperEAcute THEN <<CharLowerEAcute>>
    ELSE IF c = CharUpperIDot THEN <<"i", CharCombiningDot>>
    ELSE <<LowerChar(c)>>

\* s.toLowerCase()
RECURSIVE toLowerCase(_)
toLowerCase(s) ==
    IF Len(s) = 0 THEN <<>>
    ELSE toLowerCase(SubSeq(s, 1, Len(s) - 1)) \o LowerCaseOf(s[Len(s)])

\* 'javascript:'
StrJavascript ==
    <<"j", "a", "v", "a", "s", "c", "r", "i", "p", "t", ":">>
\* 'on'
StrOn ==
    <<"o", "n">>

\* does the literal pat (in lower case) match s at position i under the i flag
MatchesAt(s, i, pat) ==
    /\ i + Len(pat) - 1 <= Len(s)
    /\ \A k \in 1..Len(pat) : LowerChar(s[i + k - 1]) = pat[k]

\* faulty variant: only the opening bracket is removed
RemoveAngleBrackets_Mut(s) == SelectSeq(s, LAMBDA c : c # "<")

\* .replace(/[<>]/g, '')
RemoveAngleBrackets(s) == SelectSeq(s, LAMBDA c : c \notin {"<", ">"})

\* .replace(/javascript:/gi, ''): one pass from position i on, left to right;
\* the text after a removed match is scanned, the text before it is not
RECURSIVE RemoveJavascriptFrom(_, _)
RemoveJavascriptFrom(s, i) ==
    IF i > Len(s) THEN <<>>
    ELSE IF MatchesAt(s, i, StrJavascript)
    THEN RemoveJavascriptFrom(s, i + Len(StrJavascript))
    ELSE <<s[i]>> \o RemoveJavascriptFrom(s, i + 1)

RemoveJavascript(s) == RemoveJavascriptFrom(s, 1)

\* the first position from i on that holds no \w character (Len(s) + 1 if none)
RECURSIVE WordRunEnd(_, _)
WordRunEnd(s, i) ==
    IF i > Len(s) THEN Len(s) + 1
    ELSE IF s[i] \in WordChars THEN WordRunEnd(s, i + 1)
    ELSE i

\* the position of the '=' that ends a match of /on\w+=/i starting at i, 0 if
\* there is no match at i: \w+ is greedy and '=' is no \w character, so the
\* match takes the whole run of \w characters after 'on'
EventHandlerEnd(s, i) ==
    LET e == WordRunEnd(s, i + Len(StrOn))
    IN  IF /\ MatchesAt(s, i, StrOn)
           /\ e > i + Len(StrOn)
           /\ e <= Len(s)
           /\ s[e] = "="
        THEN e
        ELSE 0

\* .replace(/on\w+=/gi, ''): one pass, left to right
RECURSIVE RemoveEventHandlersFrom(_, _)
RemoveEventHandlersFrom(s, i) ==
    IF i > Len(s) THEN <<>>
    ELSE IF EventHandlerEnd(s, i) # 0
    THEN RemoveEventHandlersFrom(s, EventHandlerEnd(s, i) + 1)
    ELSE <<s[i]>> \o RemoveEventHandlersFrom(s, i + 1)

RemoveEventHandlers(s) == RemoveEventHandlersFrom(s, 1)

RECURSIVE TrimStart(_)
TrimStart(s) ==
    IF Len(s) > 0 /\ s[1] \in WhiteSpace THEN TrimStart(Tail(s)) ELSE s

RECURSIVE TrimEnd(_)
TrimEnd(s) ==
    IF Len(s) > 0 /\ s[Len(s)] \in WhiteSpace THEN TrimEnd(SubSeq(s, 1, Len(s) - 1)) ELSE s

\* s.trim()
trim(s) == TrimEnd(TrimStart(s))

\* s.slice(0, end)
slice(s, end) == SubSeq(s, 1, Min(Len(s), end))

\* sanitizeInput(input), api.ts:416-423
sanitizeInput(input) ==
    slice(trim(RemoveEventHandlers(RemoveJavascript(RemoveAngleBrackets(input)))),
          SanitizedMaxLength)

\* Validator.sanitizeString(input) for a string input, part_004:309-318
sanitizeString(input) ==
    slice(RemoveEventHandlers(RemoveJavascript(RemoveAngleBrackets(trim(input)))),
          SanitizedMaxLength)

\* the characters /[^\w@.-]/g leaves in place
EmailChars == WordChars \cup {"@", ".", "-"}

\* faulty variant: the string is not lowercased
sanitizeEmail_Mut(email) ==
    slice(SelectSeq(trim(email), LAMBDA c : c \in EmailChars), EmailMaxLength)

\* Validator.sanitizeEmail(email) for a string input, part_004:320-328
sanitizeEmail(email) ==
    slice(SelectSeq(trim(toLowerCase(email)), LAMBDA c : c \in EmailChars), EmailMaxLength)

-----------------------------------------------------------------------------
(* Validator.validateField, part_004:348-397.  A value is of type any: a    *)
(* string, a number, a boolean, null or undefined.                           *)

StringValue(s) == [type |-> "string", str |-> s]
NumberValue(n) == [type |-> "number", num |-> n]
BooleanValue(b) == [type |-> "boolean", bool |-> b]
NullValue == [type |-> "null"]
UndefinedValue == [type |-> "undefined"]

\* !value
Falsy(v) ==
    \/ v.type \in {"null", "undefined"}
    \/ v.type = "string" /\ Len(v.str) = 0
    \/ v.type = "number" /\ v.num = 0
    \/ v.type = "boolean" /\ ~v.bool

DigitChars == <<"0", "1", "2", "3", "4", "5", "6", "7", "8", "9">>

\* n.toString() for 0 <= n
RECURSIVE NumberToString(_)
NumberToString(n) ==
    IF n < 10 THEN <<DigitChars[n + 1]>>
    ELSE NumberToString(n \div 10) \o <<DigitChars[(n % 10) + 1]>>

\* value.toString(), for a value that is neither null nor undefined
toString(v) ==
    IF v.type = "string" THEN v.str
    ELSE IF v.type = "number" THEN NumberToString(v.num)
    ELSE IF v.bool THEN <<"t", "r", "u", "e">>
    ELSE <<"f", "a", "l", "s", "e">>

\* the alternatives of /^(gpt-3\.5-turbo|gpt-4|claude-3-sonnet|claude-3-haiku)$/
ModelNames ==
    {<<"g", "p", "t", "-", "3", ".", "5", "-", "t", "u", "r", "b", "o">>,
     <<"g", "p", "t", "-", "4">>,
     <<"c", "l", "a", "u", "d", "e", "-", "3", "-", "s", "o", "n", "n", "e", "t">>,
     <<"c", "l", "a", "u", "d", "e", "-", "3", "-", "h", "a", "i", "k", "u">>}

\* /^[^\s@]+@[^\s@]+\.[^\s@]+$/.test(str): no white space, one '@' that is
\* not the first character, and a '.' after it with a character on each side
EmailPatternTest(str) ==
    LET at == IndexFrom(str, "@", 1)
    IN  /\ \A i \in 1..Len(str) : str[i] \notin WhiteSpace
        /\ 1 < at
        /\ at < Len(str)
        /\ IndexFrom(str, "@", at + 1) > Len(str)
        /\ \E dot \in (at + 2)..(Len(str) - 1) : str[dot] = "."

\* rules.pattern.test(str) for the patterns of validationSchemas the model
\* uses: login.email, chatbot.model, and register.full_name /^[a-zA-ZÀ-ÿ\s]+$/
PatternTest(pattern, str) ==
    IF pattern = "model" THEN str \in ModelNames
    ELSE IF pattern = "email" THEN EmailPatternTest(str)
    ELSE /\ Len(str) > 0
         /\ \A i \in 1..Len(str) :
               str[i] \in Letters \cup WhiteSpace \cup {CharUpperEAcute, CharLowerEAcute}

\* rules.sanitize(value)
ApplySanitize(sanitize, str) ==
    IF sanitize = "sanitizeEmail" THEN sanitizeEmail(str) ELSE sanitizeString(str)

\* the first position from i on that holds no digit (Len(s) + 1 if none)
RECURSIVE DigitRunEnd(_, _)
DigitRunEnd(s, i) ==
    IF i > Len(s) THEN Len(s) + 1
    ELSE IF s[i] \in Digits THEN DigitRunEnd(s, i + 1)
    ELSE i

\* the number a string of digits denotes ('' denotes 0)
RECURSIVE DigitsValue(_)
DigitsValue(s) ==
    IF Len(s) = 0 THEN 0
    ELSE 10 * DigitsValue(SubSeq(s, 1, Len(s) - 1))
         + (CHOOSE d \in 0..9 : DigitChars[d + 1] = s[Len(s)])

RECURSIVE PowerOfTen(_)
PowerOfTen(k) == IF k = 0 THEN 1 ELSE 10 * PowerOfTen(k - 1)

NaN == [nan |-> TRUE]

\* parseFloat(s): the longest prefix of s, after leading white space, that is
\* a decimal literal (sign, digits, fraction; no exponent), as the fraction
\* num / den with its sign; NaN when there is no such prefix
parseFloat(s) ==
    LET str == TrimStart(s)
        signed == Len(str) > 0 /\ str[1] \in {"+", "-"}
        first == IF signed THEN 2 ELSE 1
        intEnd == DigitRunEnd(str, first)
        hasDot == intEnd <= Len(str) /\ str[intEnd] = "."
        fracEnd == IF hasDot THEN DigitRunEnd(str, intEnd + 1) ELSE intEnd
        fracLen == IF hasDot THEN fracEnd - intEnd - 1 ELSE 0
    IN  IF (intEnd - first) + fracLen = 0 THEN NaN
        ELSE [nan |-> FALSE,
              negative |-> signed /\ str[1] = "-",
              num |-> DigitsValue(SubSeq(str, first, intEnd - 1)
                                  \o SubSeq(str, intEnd + 1, fracEnd - 1)),
              den |-> PowerOfTen(fracLen)]

\* Validator.sanitizeNumber(input): parseFloat of String(input), NaN for null
StrNull == <<"n", "u", "l", "l">>
StrUndefined == <<"u", "n", "d", "e", "f", "i", "n", "e", "d">>

sanitizeNumber(v) ==
    parseFloat(IF v.type = "null" THEN StrNull
               ELSE IF v.type = "undefined" THEN StrUndefined
               ELSE toString(v))

\* num !== null && num >= 0 && num <= 1   (-0 >= 0 holds)
TemperatureInRange(number) ==
    /\ ~number.nan
    /\ number.negative => number.num = 0
    /\ number.num <= number.den

\* rules.custom(sanitizedValue): a predicate that accepts, one that rejects,
\* one that returns a message, and validationSchemas.chatbot.temperature.custom
CustomResult(custom, v) ==
    IF custom = "accept" THEN BooleanValue(TRUE)
    ELSE IF custom = "reject" THEN BooleanValue(FALSE)
    ELSE IF custom = "temperature" THEN BooleanValue(TemperatureInRange(sanitizeNumber(v)))
    ELSE StringValue(<<"n", "o">>)

\* faulty variant: a whitespace-only value counts as filled in
RequiredFails_Mut(rules, sanitizedValue) == rules.required /\ Falsy(sanitizedValue)

\* rules.required && (!sanitizedValue || sanitizedValue.toString().trim() === '')
RequiredFails(rules, sanitizedValue) ==
    rules.required /\ (Falsy(sanitizedValue) \/ trim(toString(sanitizedValue)) = <<>>)

\* validateField(value, rules): the ValidationResult, with the checks that
\* were evaluated and the number of calls of rules.custom.  An absent
\* minLength / maxLength is 0: the code tests them for truthiness.
validateField(value, rules) ==
    LET sanitizedValue ==
            IF rules.sanitize # "none" /\ value.type = "string"
            THEN StringValue(ApplySanitize(rules.sanitize, value.str))
            ELSE value
    IN  IF RequiredFails(rules, sanitizedValue)
        THEN [isValid |-> FALSE, errors |-> <<"Este campo es requerido">>,
              sanitizedValue |-> sanitizedValue, executed |-> {}, customCalls |-> 0]
        ELSE IF Falsy(sanitizedValue) /\ ~rules.required
        THEN [isValid |-> TRUE, errors |-> <<>>,
              sanitizedValue |-> sanitizedValue, executed |-> {}, customCalls |-> 0]
        ELSE
        LET str == toString(sanitizedValue)
            tooShort == IF rules.minLength # 0 /\ Len(str) < rules.minLength
                        THEN <<"Debe tener al menos ${rules.minLength} caracteres">>
                        ELSE <<>>
            tooLong == IF rules.maxLength # 0 /\ Len(str) > rules.maxLength
                       THEN <<"No puede tener mas de ${rules.maxLength} caracteres">>
                       ELSE <<>>
            noMatch == IF rules.pattern # "none" /\ ~PatternTest(rules.pattern, str)
                       THEN <<"El formato no es valido">>
                       ELSE <<>>
            customResult == CustomResult(rules.custom, sanitizedValue)
            customError == IF rules.custom = "none" THEN <<>>
                           ELSE IF customResult.type = "string" THEN <<customResult.str>>
                           ELSE IF Falsy(customResult) THEN <<"El valor no es valido">>
                           ELSE <<>>
            errors == tooShort \o tooLong \o noMatch \o customError
        IN  [isValid |-> Len(errors) = 0, errors |-> errors,
             sanitizedValue |-> sanitizedValue,
             executed |-> {c \in {"minLength", "maxLength", "pattern", "custom"} :
                              \/ c = "minLength" /\ rules.minLength # 0
                              \/ c = "maxLength" /\ rules.maxLength # 0
                              \/ c = "pattern" /\ rules.pattern # "none"
                              \/ c = "custom" /\ rules.custom # "none"},
             customCalls |-> IF rules.custom = "none" THEN 0 ELSE 1]

\* data[fieldName]: undefined for a field the data does not have
DataGet(data, fieldName) ==
    IF fieldName \in DOMAIN data THEN data[fieldName] ELSE UndefinedValue

\* faulty variant: the sanitized value of an invalid field is not kept
FormStep_Mut(acc, fieldName, result) ==
    [isValid |-> acc.isValid /\ result.isValid,
     errors |-> IF result.isValid THEN acc.errors
                ELSE (fieldName :> result.errors) @@ acc.errors,
     sanitizedData |-> IF result.isValid
                       THEN (fieldName :> result.sanitizedValue) @@ acc.sanitizedData
                       ELSE acc.sanitizedData]

\* one turn of validateForm's loop, part_004:406-414
FormStep(acc, fieldName, result) ==
    [isValid |-> acc.isValid /\ result.isValid,
     errors |-> IF result.isValid THEN acc.errors
                ELSE (fieldName :> result.errors) @@ acc.errors,
     sanitizedData |-> (fieldName :> result.sanitizedValue) @@ acc.sanitizedData]

\* the loop over Object.entries(schema) from entry i on
RECURSIVE ValidateFormFrom(_, _, _, _)
ValidateFormFrom(data, schema, i, acc) ==
    IF i > Len(schema) THEN acc
    ELSE ValidateFormFrom(data, schema, i + 1,
             FormStep(acc, schema[i][1],
                      validateField(DataGet(data, schema[i][1]), schema[i][2])))

\* Validator.validateForm(data, schema), part_004:399-418; the schema is the
\* sequence of its entries <<fieldName, rules>>
validateForm(data, schema) ==
    ValidateFormFrom(data, schema, 1,
                     [isValid |-> TRUE, errors |-> <<>>, sanitizedData |-> <<>>])

-----------------------------------------------------------------------------
(* onRequest, api.ts:443-647.  An invocation runs without interruption from *)
(* one await to the next: from its start to await next(); from there to     *)
(* await request.formData() or to a return; from there to the return.       *)

\* the names of the entries of securityHeaders (api.ts:328-346)
SecurityHeaderNames ==
    {"X-Content-Type-Options", "X-Frame-Options", "X-XSS-Protection",
     "Referrer-Policy", "Permissions-Policy", "Strict-Transport-Security",
     "Content-Security-Policy"}

\* securityHeaders (api.ts:328-346), with config.api.baseUrl at its default
securityHeaders ==
    [name \in SecurityHeaderNames |->
        CASE name = "X-Content-Type-Options" -> "nosniff"
          [] name = "X-Frame-Options" -> "DENY"
          [] name = "X-XSS-Protection" -> "1; mode=block"
          [] name = "Referrer-Policy" -> "strict-origin-when-cross-origin"
          [] name = "Permissions-Policy" -> "camera=(), microphone=(), geolocation=()"
          [] name = "Strict-Transport-Security" -> "max-age=31536000; includeSubDomains"
          [] name = "Content-Security-Policy" ->
                "default-src 'self'; script-src 'self' 'unsafe-inline' 'unsafe-eval' https://cdn.jsdelivr.net; style-src 'self' 'unsafe-inline' https://cdn.jsdelivr.net; img-src 'self' data: https:; font-src 'self' https://fonts.gstatic.com; connect-src 'self' http://localhost:8000; frame-ancestors 'none'; base-uri 'self'; form-action 'self'"]

\* the headers of the response the downstream handler returned: a page that
\* sets a framing policy of its own
DownstreamHeaders ==
    ("Content-Type" :> "text/html") @@ ("X-Frame-Options" :> "SAMEORIGIN")

\* faulty variant: a header the response already has is left as it is
SetHeaders_Mut(headers, entries) == headers @@ entries

\* response.headers.set(key, value) for every entry: an entry replaces the
\* header of its name
SetHeaders(headers, entries) == entries @@ headers

\* { 'Content-Type': 'application/json', ...Object.fromEntries(response.headers.entries()) }:
\* the spread comes last, so the response's own Content-Type stays
JsonHeaders(headers) == headers @@ ("Content-Type" :> "application/json")

\* the CORS handling of onRequest
CorsHeaders(req, c) ==
    IF /\ Len(c.allowedOrigins) > 0
       /\ req.origin # None
       /\ req.origin \in Range(c.allowedOrigins)
    THEN ("Access-Control-Allow-Origin" :> req.origin)
         @@ ("Access-Control-Allow-Credentials" :> "true")
    ELSE <<>>

PreflightHeaders ==
    ("Access-Control-Allow-Methods" :> "GET, POST, PUT, DELETE, OPTIONS")
    @@ ("Access-Control-Allow-Headers" :> "Content-Type, Authorization, X-CSRF-Token")
    @@ ("Access-Control-Max-Age" :> "86400")

\* the headers of the 429 response; Retry-After in clock units
RateLimitHeaders(resetTime, t) ==
    ("Retry-After" :> resetTime - t)
    @@ ("X-RateLimit-Limit" :> loginAttempts)
    @@ ("X-RateLimit-Remaining" :> 0)
    @@ ("X-RateLimit-Reset" :> resetTime)

Response(status, error, headers) == [status |-> status, error |-> error, headers |-> headers]

\* what the history records of one invocation
NoObs ==
    [handled |-> 0,            \* number of times next() was called
     rateChecked |-> FALSE,    \* checkRateLimit was called
     csrfChecked |-> FALSE,    \* the CSRF check was entered
     csrfCalled |-> FALSE,     \* validateCSRFToken was called
     csrfValid |-> FALSE,      \* ... and returned true
     headerActive |-> FALSE,   \* the X-CSRF-Token value was in the set when the check began
     queryActive |-> FALSE,    \* the csrf_token value was in the set when the check began
     origin |-> "unchecked",   \* validateOrigin: "true", "false", or "throw" for a TypeError
     consumed |-> {},          \* tokens the invocation removed from the set
     issued |-> {},            \* tokens the invocation added to the set
     replaced |-> FALSE,       \* context.request was replaced by the sanitized request
     parseFailed |-> FALSE,    \* request.formData() rejected and the catch block ran
     seenBody |-> None,        \* the form value the route handler found in context.request
     finalBody |-> None]       \* the form value in context.request when onRequest returns

Idle == [pc |-> "idle"]
NoneCompleted == [done |-> FALSE]
Completed(req, response, obs) ==
    [done |-> TRUE, req |-> req, response |-> response, obs |-> obs]

\* faulty variant: the route handler is not invoked
InvokeNext_Mut(obs, req) == obs

\* line 457 / 461, next(): the route handler runs with context.request as it is
InvokeNext(obs, req) ==
    [obs EXCEPT !.handled = @ + 1, !.seenBody = req.body, !.finalBody = req.body]

\* faulty variant: a failed parse leaves context.request without its body
SanitizeOutcome_Mut(req, obs, parsed) ==
    [obs EXCEPT !.replaced = parsed,
                !.parseFailed = ~parsed,
                !.finalBody = IF parsed THEN sanitizeInput(req.body) ELSE None]

\* lines 593-620: the try block replaces context.request by the sanitized
\* request; the catch block logs and keeps the original one
SanitizeOutcome(req, obs, parsed) ==
    [obs EXCEPT !.replaced = parsed,
                !.parseFailed = ~parsed,
                !.finalBody = IF parsed THEN sanitizeInput(req.body) ELSE req.body]

\* lines 462-594: from the return of next() to the next await or return
AfterNextOutcome(req, c, store, tokens, t) ==
    LET headers == SetHeaders(SetHeaders(DownstreamHeaders, securityHeaders),
                              CorsHeaders(req, c))
        rateChecked == c.enableRateLimiting /\ IsSensitive(req.pathname)
        rate == IF rateChecked
                THEN checkRateLimit(store, getClientIP(req), req.pathname, t)
                ELSE [allowed |-> TRUE, resetTime |-> NoResetTime, store |-> store]
        csrfChecked == CsrfRequired(c, req)
        token == PresentedToken(req)
        csrfCalled == csrfChecked /\ token # AbsentToken
        validation == IF csrfCalled
                      THEN validateCSRFToken(tokens, token)
                      ELSE [isValid |-> FALSE, tokens |-> tokens]
        origin == validateOrigin(req, c.allowedOrigins)
        \* next() has run the route handler with context.request as line 461 finds it
        obs0 == InvokeNext(NoObs, req)
        obs1 == [obs0 EXCEPT !.rateChecked = rateChecked]
        obs2 == [obs1 EXCEPT !.csrfChecked = csrfChecked,
                             !.csrfCalled = csrfCalled,
                             !.csrfValid = validation.isValid,
                             !.headerActive = req.csrfHeader \in Range(tokens),
                             !.queryActive = req.csrfQuery \in Range(tokens),
                             !.consumed = Range(tokens) \ Range(validation.tokens)]
        obs3 == [obs2 EXCEPT !.origin = IF origin.threw THEN "throw"
                                        ELSE IF origin.value THEN "true" ELSE "false"]
    IN  IF req.method = "OPTIONS"
        THEN [next |-> "return", store |-> store, tokens |-> tokens, obs |-> obs0,
              headers |-> headers,
              response |-> Response("200", "none", SetHeaders(headers, PreflightHeaders))]
        ELSE IF ~rate.allowed
        THEN [next |-> "return", store |-> rate.store, tokens |-> tokens, obs |-> obs1,
              headers |-> headers,
              response |-> Response("429", "Too many requests",
                                    JsonHeaders(SetHeaders(headers,
                                        RateLimitHeaders(rate.resetTime, t))))]
        ELSE IF csrfChecked /\ ~validation.isValid
        THEN [next |-> "return", store |-> rate.store, tokens |-> validation.tokens,
              obs |-> obs2, headers |-> headers,
              response |-> Response("403", "CSRF token missing or invalid",
                                    JsonHeaders(headers))]
        ELSE IF origin.threw
        THEN [next |-> "return", store |-> rate.store, tokens |-> validation.tokens,
              obs |-> obs3, headers |-> headers,
              response |-> Response("TypeError", "uncaught", <<>>)]
        ELSE IF ~origin.value
        THEN [next |-> "return", store |-> rate.store, tokens |-> validation.tokens,
              obs |-> obs3, headers |-> headers,
              response |-> Response("403", "Invalid origin", JsonHeaders(headers))]
        ELSE [next |-> IF IsFormPost(req) THEN "formData" ELSE "issue",
              store |-> rate.store, tokens |-> validation.tokens, obs |-> obs3,
              headers |-> headers,
              response |-> Response("downstream", "none", headers)]

\* lines 623-646: CSRF token issuance and the return of the downstream response
IssueOutcome(req, c, tokens, drawn, headers, obs) ==
    IF ShouldIssueToken(c, req)
    THEN LET token == randomUUID(drawn)
         IN  [tokens |-> generateCSRFToken(tokens, token), drawn |-> drawn + 1,
              obs |-> [obs EXCEPT !.issued = {token}],
              response |-> Response("downstream", "none",
                                    SetHeaders(headers,
                                        ("X-CSRF-Token" :> token) @@ ("Set-Cookie" :> token)))]
    ELSE [tokens |-> tokens, drawn |-> drawn, obs |-> obs,
          response |-> Response("downstream", "none", headers)]

-----------------------------------------------------------------------------
(* The client's stores (zustand) and withRetry: their states *)

\* async auth actions that can be in flight at once
NAuthSlots == 2
AuthSlots == 1..NAuthSlots

\* the largest maxRetries withRetry is called with
MaxRetriesBound == 3

\* null
Nil == "null"

\* zustand's set(partial): the fields of partial replace those of the state
set(state, partial) ==
    [k \in DOMAIN state |-> IF k \in DOMAIN partial THEN partial[k] ELSE state[k]]

\* part_003:32-37
InitialAuthState ==
    [isAuthenticated |-> FALSE, user |-> Nil, company |-> Nil, token |-> Nil,
     loading |-> FALSE, error |-> Nil]

\* no async action in the slot
NoTask == [pc |-> "idle"]

\* part_001:35-39
InitialAnalyticsState ==
    [dashboardStats |-> Nil, conversationMetrics |-> Nil, loading |-> FALSE,
     error |-> Nil, lastUpdated |-> Nil]

\* no refreshAll in flight
NoRefresh == [pc |-> "idle"]

\* no withRetry in flight
NoRetry == [pc |-> "idle"]

-----------------------------------------------------------------------------
(* Actions *)

\* the clock advances
Tick ==
    /\ now < MaxTime
    /\ now' = now + 1
    /\ rlLast' = NoCall
    /\ UNCHANGED <<rateLimitStore, rlT0, rlN, rlBlocked>>
    /\ UNCHANGED csrfVars
    /\ UNCHANGED mwVars
    /\ UNCHANGED pureCall
    /\ UNCHANGED clientVars

\* one call of checkRateLimit(ip, endpoint)
CallCheckRateLimit(ip, endpoint) ==
    LET r == checkRateLimit(rateLimitStore, ip, endpoint, now)
    IN  /\ rateLimitStore' = r.store
        /\ RecordCall(RateKey(ip, endpoint), now, r)
        /\ UNCHANGED now
        /\ UNCHANGED csrfVars
        /\ UNCHANGED mwVars
        /\ UNCHANGED pureCall
        /\ UNCHANGED clientVars

\* one call of generateCSRFToken()
CallGenerateCSRFToken ==
    /\ uuidCount < MaxGenerated
    /\ LET token == randomUUID(uuidCount)
           after == generateCSRFToken(csrfTokens, token)
       IN  /\ csrfTokens' = after
           /\ uuidCount' = uuidCount + 1
           /\ csrfEvicted' = csrfEvicted \cup ((Range(csrfTokens) \cup {token}) \ Range(after))
    /\ UNCHANGED csrfHist
    /\ UNCHANGED rlVars
    /\ UNCHANGED mwVars
    /\ UNCHANGED pureCall
    /\ UNCHANGED clientVars

\* one call of validateCSRFToken(token)
CallValidateCSRFToken(token) ==
    LET r == validateCSRFToken(csrfTokens, token)
    IN  /\ csrfTokens' = r.tokens
        /\ csrfHist' = RecordValidation(csrfHist, token, r.isValid)
        /\ UNCHANGED <<uuidCount, csrfEvicted>>
        /\ UNCHANGED rlVars
        /\ UNCHANGED mwVars
        /\ UNCHANGED pureCall
        /\ UNCHANGED clientVars

\* a client presents no token, the never-issued token, or a token that was
\* issued: it cannot guess a UUID that is yet to be drawn
CanPresent(token, drawn) == token \in {AbsentToken, BogusToken} \/ token <= drawn

\* onRequest starts: lines 443-461.  A static asset is answered by next()
\* alone; any other request waits for next().
Begin(s, req) ==
    /\ requests[s] = Idle
    /\ ~mwLast.done
    /\ CanPresent(req.csrfHeader, uuidCount)
    /\ CanPresent(req.csrfQuery, uuidCount)
    /\ ShouldIssueToken(cfg, req) =>
          uuidCount + Cardinality({x \in Slots : requests[x] # Idle
                                                  /\ ShouldIssueToken(cfg, requests[x].req)})
             < MaxIssued
    /\ IF IsStaticAsset(req.pathname)
       THEN /\ requests' = requests
            /\ mwLast' = Completed(req, Response("downstream", "none", DownstreamHeaders),
                                   InvokeNext(NoObs, req))
       ELSE /\ requests' = [requests EXCEPT ![s] = [pc |-> "next", req |-> req]]
            /\ mwLast' = NoneCompleted
    /\ UNCHANGED <<cfg, now, pureCall>>
    /\ UNCHANGED clientVars
    /\ UNCHANGED <<rateLimitStore, rlT0, rlN, rlLast, rlBlocked>>
    /\ UNCHANGED csrfVars

\* next() has returned: lines 462-594, and 623-646 when nothing is awaited
AfterNext(s) ==
    /\ requests[s] # Idle
    /\ requests[s].pc = "next"
    /\ LET req == requests[s].req
           o == AfterNextOutcome(req, cfg, rateLimitStore, csrfTokens, now)
           i == IssueOutcome(req, cfg, o.tokens, uuidCount, o.headers, o.obs)
       IN  /\ rateLimitStore' = o.store
           /\ csrfHist' = IF o.obs.csrfCalled
                          THEN RecordValidation(csrfHist, PresentedToken(req), o.obs.csrfValid)
                          ELSE csrfHist
           /\ IF o.next = "formData"
              THEN /\ requests' = [requests EXCEPT ![s] =
                           [pc |-> "formData", req |-> req, headers |-> o.headers, obs |-> o.obs]]
                   /\ mwLast' = NoneCompleted
                   /\ csrfTokens' = o.tokens
                   /\ UNCHANGED uuidCount
              ELSE IF o.next = "issue"
              THEN /\ requests' = [requests EXCEPT ![s] = Idle]
                   /\ mwLast' = Completed(req, i.response, i.obs)
                   /\ csrfTokens' = i.tokens
                   /\ uuidCount' = i.drawn
              ELSE /\ requests' = [requests EXCEPT ![s] = Idle]
                   /\ mwLast' = Completed(req, o.response, o.obs)
                   /\ csrfTokens' = o.tokens
                   /\ UNCHANGED uuidCount
    /\ UNCHANGED <<cfg, now, csrfEvicted, pureCall>>
    /\ UNCHANGED clientVars
    /\ UNCHANGED <<rlT0, rlN, rlLast, rlBlocked>>

\* the tail of onRequest after await request.formData(): lines 595-646
AfterFormData(s, parsed) ==
    /\ requests[s] # Idle
    /\ requests[s].pc = "formData"
    /\ LET req == requests[s].req
           obs == SanitizeOutcome(req, requests[s].obs, parsed)
           i == IssueOutcome(req, cfg, csrfTokens, uuidCount, requests[s].headers, obs)
       IN  /\ requests' = [requests EXCEPT ![s] = Idle]
           /\ mwLast' = Completed(req, i.response, i.obs)
           /\ csrfTokens' = i.tokens
           /\ uuidCount' = i.drawn
    /\ UNCHANGED <<cfg, now, csrfEvicted, csrfHist, pureCall>>
    /\ UNCHANGED clientVars
    /\ UNCHANGED rlVars

\* the response of the invocation completed last has gone to the client; the
\* history keeps it no longer
Deliver ==
    /\ mwLast.done
    /\ mwLast' = NoneCompleted
    /\ UNCHANGED <<cfg, requests, pureCall>>
    /\ UNCHANGED clientVars
    /\ UNCHANGED rlVars
    /\ UNCHANGED csrfVars

\* request.formData() resolves: the sanitized request replaces context.request
FormDataResolves(s) == AfterFormData(s, TRUE)

\* request.formData() rejects: caught, the original request is kept
FormDataRejects(s) == AfterFormData(s, FALSE)

Init ==
    /\ now = 0
    /\ rateLimitStore = <<>>
    /\ rlT0 = <<>>
    /\ rlN = <<>>
    /\ rlLast = NoCall
    /\ rlBlocked = <<>>
    /\ csrfTokens = <<>>
    /\ uuidCount = 0
    /\ csrfEvicted = {}
    /\ csrfHist = [t \in {} |-> NoValidation]
    /\ cfg = Config(FALSE, TRUE, TRUE, DefaultAllowedOrigins)
    /\ requests = [s \in Slots |-> Idle]
    /\ mwLast = NoneCompleted
    /\ pureCall = NoPureCall
    /\ authState = InitialAuthState
    /\ authTasks = [s \in AuthSlots |-> NoTask]
    /\ analyticsState = InitialAnalyticsState
    /\ analyticsTasks = NoRefresh
    /\ retryRun = NoRetry

NextRL ==
    \/ Tick
    \/ \E ip \in Identities, endpoint \in Routes : CallCheckRateLimit(ip, endpoint)

\* the rate limiter alone, called at non-decreasing times
SpecRL == Init /\ [][NextRL]_vars

\* (identity, route) pairs as onRequest hands them to checkRateLimit: the
\* identity is a header value the client chooses, the route is the URL's
\* pathname; both may hold a ':'
KeyPairs ==
    {[ip |-> IpA \o <<":", "/", "a", "p", "i">>, endpoint |-> PathLogin],
     [ip |-> IpA, endpoint |-> <<"/", "a", "p", "i", ":">> \o PathLogin],
     [ip |-> IpB, endpoint |-> PathLogin]}

\* one call of checkRateLimit(ip, endpoint), with the arguments and the
\* return value kept for the caller
CallCheckRateLimitFor(ip, endpoint) ==
    LET r == checkRateLimit(rateLimitStore, ip, endpoint, now)
    IN  /\ rateLimitStore' = r.store
        /\ RecordCall(RateKey(ip, endpoint), now, r)
        /\ pureCall' = [op |-> "checkRateLimit", ip |-> ip, endpoint |-> endpoint,
                        before |-> rateLimitStore,
                        result |-> [allowed |-> r.allowed, resetTime |-> r.resetTime]]
        /\ UNCHANGED clientVars
        /\ UNCHANGED now
        /\ UNCHANGED csrfVars
        /\ UNCHANGED mwVars

NextKeys ==
    \/ Tick
    \/ \E pair \in KeyPairs : CallCheckRateLimitFor(pair.ip, pair.endpoint)

\* the rate limiter called for pairs whose strings hold the separator
SpecKeys == Init /\ [][NextKeys]_vars

\* tokens presented for validation: issued ones among 1..NProbe, and the bogus one
Presented == {BogusToken} \cup {t \in 1..NProbe : t <= uuidCount}

NextCsrf ==
    \/ CallGenerateCSRFToken
    \/ \E token \in Presented : CallValidateCSRFToken(token)

\* the token manager alone
SpecCsrf == Init /\ [][NextCsrf]_vars

-----------------------------------------------------------------------------
(* The middleware: requests handled one at a time, under each configuration *)

\* a GET of a page by a client behind the proxy, no other header set
BaseRequest ==
    [method |-> "GET", pathname |-> PathAbout,
     cfConnectingIp |-> None, xRealIp |-> IpA, xForwardedFor |-> None, xClientIp |-> None,
     authorization |-> None, csrfHeader |-> AbsentToken, csrfQuery |-> AbsentToken,
     origin |-> None, referer |-> None, contentType |-> None, body |-> None]

Paths == {PathLogin, PathApi, PathDashboard, PathAbout, PathScript}

\* (X-CSRF-Token, csrf_token) pairs: absent, issued (1) and never-issued (0) values
TokenPairs ==
    {<<AbsentToken, AbsentToken>>, <<1, AbsentToken>>, <<AbsentToken, 1>>,
     <<BogusToken, AbsentToken>>, <<BogusToken, 1>>}

\* every method and path, with and without CSRF token; on an API path and on
\* a page path also with an Authorization header
CsrfRequests ==
    {[BaseRequest EXCEPT !.method = m, !.pathname = p,
                         !.csrfHeader = hq[1], !.csrfQuery = hq[2]] :
        m \in Methods, p \in Paths, hq \in TokenPairs}
    \cup
    {[BaseRequest EXCEPT !.method = m, !.pathname = p, !.authorization = a,
                         !.csrfHeader = hq[1], !.csrfQuery = hq[2]] :
        m \in Methods, p \in {PathApi, PathAbout}, a \in {AuthBearer, AuthBasic},
        hq \in TokenPairs}

\* every combination of Origin and Referer
OriginRequests ==
    {[BaseRequest EXCEPT !.method = m, !.pathname = p, !.origin = o, !.referer = r] :
        m \in {"GET", "POST"}, p \in {PathAbout, PathLogin},
        o \in {None, OriginLocal4321, OriginEvil},
        r \in {None, RefererLocal, RefererEvil, RefererMalformed}}

\* 'ab'
BodyPlain ==
    <<"a", "b">>
\* ' <b>hi</b>'
BodyMarkup ==
    <<" ", "<", "b", ">", "h", "i", "<", "/", "b", ">">>

\* POST requests with a body of one field
FormRequests ==
    {[BaseRequest EXCEPT !.method = "POST", !.pathname = p, !.contentType = ct,
                         !.csrfHeader = h, !.body = b] :
        p \in {PathAbout, PathLogin}, ct \in {ContentForm, ContentJson},
        h \in {AbsentToken, 1}, b \in {BodyPlain, BodyMarkup}}

Requests == CsrfRequests \cup OriginRequests \cup FormRequests

\* production and development defaults, protections switched off, no allow-list
Configs ==
    {Config(TRUE, TRUE, TRUE, DefaultAllowedOrigins),
     Config(FALSE, TRUE, TRUE, DefaultAllowedOrigins),
     Config(TRUE, FALSE, FALSE, DefaultAllowedOrigins),
     Config(TRUE, TRUE, TRUE, <<>>)}

InitMW ==
    /\ now = 0
    /\ rateLimitStore = <<>>
    /\ rlT0 = <<>>
    /\ rlN = <<>>
    /\ rlLast = NoCall
    /\ rlBlocked = <<>>
    /\ csrfTokens = <<>>
    /\ uuidCount = 0
    /\ csrfEvicted = {}
    /\ csrfHist = [t \in {} |-> NoValidation]
    /\ cfg \in Configs
    /\ requests = [s \in Slots |-> Idle]
    /\ mwLast = NoneCompleted
    /\ pureCall = NoPureCall
    /\ authState = InitialAuthState
    /\ authTasks = [s \in AuthSlots |-> NoTask]
    /\ analyticsState = InitialAnalyticsState
    /\ analyticsTasks = NoRefresh
    /\ retryRun = NoRetry

NextMW ==
    \/ \E req \in Requests : Begin(1, req)
    \/ AfterNext(1)
    \/ FormDataResolves(1)
    \/ FormDataRejects(1)
    \/ Deliver

SpecMW == InitMW /\ [][NextMW]_vars

(* The middleware in production: invocations interleaving at their awaits *)

ConcRequests ==
    {[BaseRequest EXCEPT !.pathname = PathLogin]}
    \cup {[BaseRequest EXCEPT !.method = "POST", !.pathname = p, !.contentType = ct,
                              !.csrfHeader = h] :
            p \in {PathAbout}, ct \in {ContentForm, None}, h \in {1, BogusToken}}

InitConc ==
    /\ InitMW
    /\ cfg = Config(TRUE, TRUE, TRUE, DefaultAllowedOrigins)

NextConc ==
    \/ \E s \in Slots, req \in ConcRequests : Begin(s, req)
    \/ \E s \in Slots : AfterNext(s)
    \/ \E s \in Slots : FormDataResolves(s)
    \/ \E s \in Slots : FormDataRejects(s)
    \/ Deliver

SpecConc == InitConc /\ [][NextConc]_vars

-----------------------------------------------------------------------------
(* The pure helpers, each called on inputs drawn from the sets below *)

\* ',10.0.0.2': an X-Forwarded-For value whose first entry is empty
XffLeadingComma ==
    <<",", "1", "0", ".", "0", ".", "0", ".", "2">>
\* '10.0.0.1,10.0.0.2'
XffList ==
    <<"1", "0", ".", "0", ".", "0", ".", "1", ",", "1", "0", ".", "0", ".", "0", ".", "2">>

\* requests that differ in the four headers getClientIP reads
IpRequests ==
    {[BaseRequest EXCEPT !.cfConnectingIp = cf, !.xRealIp = real,
                         !.xForwardedFor = xff, !.xClientIp = client] :
        cf \in {None, IpA, IpB}, real \in {None, IpA, IpB},
        xff \in {None, IpA, XffLeadingComma, XffList}, client \in {None, IpA, IpB}}

\* pieces the sanitizer inputs are put together from; the last one is longer
\* than SanitizedMaxLength, with a space where the truncation falls
SanitizerPieces ==
    {<<"<">>, <<">">>, <<" ">>, <<"a">>, <<"=">>,
     <<"o", "n">>,
     <<"j", "a", "v", "a">>,
     <<"s", "c", "r", "i", "p", "t", ":">>,
     <<"j", "a", "v", "a", "s", "c", "r", "i", "p", "t", ":">>,
     <<"J", "a", "v", "a", "S", "c", "r", "i", "p", "t", ":">>,
     <<"o", "n", "C", "l", "i", "c", "k", "=">>,
     <<"a", "b", "c", "d", "e", "f", "g", "h", "i", "j", "k", " ", "l">>}

\* every string made of at most three pieces
SanitizerInputs ==
    {<<>>} \cup SanitizerPieces
    \cup {a \o b : a \in SanitizerPieces, b \in SanitizerPieces}
    \cup {a \o b \o c : a \in SanitizerPieces, b \in SanitizerPieces, c \in SanitizerPieces}

EmailPieces ==
    {<<" ">>, <<"A">>, <<"b">>, <<"@">>, <<".">>, <<"-">>, <<"_">>, <<"!">>, <<"<">>, <<"1">>,
     <<CharUpperEAcute>>, <<CharUpperIDot>>}

\* a local part longer than EmailMaxLength
LongEmail == [i \in 1..(EmailMaxLength + 3) |-> IF i % 2 = 0 THEN "A" ELSE "b"]

EmailInputs ==
    {<<>>} \cup EmailPieces
    \cup {a \o b : a \in EmailPieces, b \in EmailPieces}
    \cup {a \o b \o c : a \in EmailPieces, b \in EmailPieces, c \in EmailPieces}
    \cup {a \o LongEmail \o b : a \in {<<>>, <<" ">>}, b \in {<<>>, <<"!">>, <<"@">>}}

\* values handed to validateField
FieldValues ==
    {StringValue(s) : s \in {<<>>, <<" ">>, <<" ", "\t">>, <<"a", "b">>,
                             <<" ", "g", "p", "t", "-", "4", " ">>,
                             <<"<", ">">>, <<"<", " ", ">">>,
                             <<"<", "b", ">", "a", "b", "c", "d">>}}
    \cup {NullValue, UndefinedValue, NumberValue(0), NumberValue(5), BooleanValue(FALSE)}

\* rules: each check absent or present
FieldRules ==
    [required : BOOLEAN, minLength : {0, 3}, maxLength : {0, 4},
     pattern : {"none", "model", "full_name"},
     custom : {"none", "accept", "reject", "message"},
     sanitize : {"none", "sanitizeString", "sanitizeEmail"}]

\* validationSchemas.login.email, login.password, chatbot.model and
\* chatbot.temperature
LoginEmailRule ==
    [required |-> TRUE, minLength |-> 0, maxLength |-> EmailMaxLength,
     pattern |-> "email", custom |-> "none", sanitize |-> "sanitizeEmail"]

LoginPasswordRule ==
    [required |-> TRUE, minLength |-> 1, maxLength |-> 128,
     pattern |-> "none", custom |-> "none", sanitize |-> "sanitizeString"]

ChatbotModelRule ==
    [required |-> TRUE, minLength |-> 0, maxLength |-> 0,
     pattern |-> "model", custom |-> "none", sanitize |-> "sanitizeString"]

ChatbotTemperatureRule ==
    [required |-> TRUE, minLength |-> 0, maxLength |-> 0,
     pattern |-> "none", custom |-> "temperature", sanitize |-> "none"]

SchemaRules == {LoginEmailRule, LoginPasswordRule, ChatbotModelRule, ChatbotTemperatureRule}

\* temperatures as a form hands them over: numbers, and the text of inputs
TemperatureValues ==
    {NumberValue(n) : n \in 0..2}
    \cup {StringValue(s) : s \in {<<"0">>, <<"0", ".", "5">>, <<" ", ".", "5">>, <<"1">>,
                                  <<"1", ".", "0">>, <<"1", ".", "5">>, <<"-", "1">>,
                                  <<"-", "0">>, <<"a", "b", "c">>, <<"1", "x">>}}
    \cup {BooleanValue(TRUE)}

\* validationSchemas.login, and the model and temperature of
\* validationSchemas.chatbot, as Object.entries lists them
LoginSchema == <<(<<"email", LoginEmailRule>>), (<<"password", LoginPasswordRule>>)>>

ChatbotSchema == <<(<<"model", ChatbotModelRule>>), (<<"temperature", ChatbotTemperatureRule>>)>>

FormSchemas == {LoginSchema, ChatbotSchema}

FormFieldValues ==
    {StringValue(s) : s \in {<<>>, <<"b", "a", "d">>, <<" ", "A", "@", "b", ".", "c">>,
                             <<"<", ">">>, <<"x">>, <<"g", "p", "t", "-", "4">>,
                             <<"0", ".", "5">>}}
    \cup {NumberValue(0), NumberValue(1), NumberValue(2)}

FieldNames(schema) == {schema[i][1] : i \in 1..Len(schema)}

\* form data: some of the schema's fields, each with a value
FormData(schema) ==
    UNION {[present -> FormFieldValues] : present \in SUBSET FieldNames(schema)}

PureCalled(call) ==
    /\ pureCall = NoPureCall
    /\ pureCall' = call
    /\ UNCHANGED clientVars
    /\ UNCHANGED rlVars
    /\ UNCHANGED csrfVars
    /\ UNCHANGED mwVars

CallGetClientIP(req) ==
    PureCalled([op |-> "getClientIP", req |-> req, result |-> getClientIP(req)])

CallSanitizeInput(input) ==
    PureCalled([op |-> "sanitizeInput", input |-> input, result |-> sanitizeInput(input)])

CallSanitizeString(input) ==
    PureCalled([op |-> "sanitizeString", input |-> input, result |-> sanitizeString(input)])

CallSanitizeEmail(email) ==
    PureCalled([op |-> "sanitizeEmail", input |-> email, result |-> sanitizeEmail(email)])

CallValidateField(value, rules) ==
    PureCalled([op |-> "validateField", value |-> value, rules |-> rules,
                result |-> validateField(value, rules)])

CallValidateForm(data, schema) ==
    PureCalled([op |-> "validateForm", data |-> data, schema |-> schema,
                result |-> validateForm(data, schema)])

\* the caller has taken the result
ReturnPure ==
    /\ pureCall # NoPureCall
    /\ pureCall' = NoPureCall
    /\ UNCHANGED clientVars
    /\ UNCHANGED rlVars
    /\ UNCHANGED csrfVars
    /\ UNCHANGED mwVars

NextPure ==
    \/ \E req \in IpRequests : CallGetClientIP(req)
    \/ \E input \in SanitizerInputs : CallSanitizeInput(input)
    \/ \E input \in SanitizerInputs : CallSanitizeString(input)
    \/ \E email \in EmailInputs : CallSanitizeEmail(email)
    \/ \E value \in FieldValues, rules \in FieldRules : CallValidateField(value, rules)
    \/ \E value \in FieldValues \cup TemperatureValues, rules \in SchemaRules :
            CallValidateField(value, rules)
    \/ \E schema \in FormSchemas : \E data \in FormData(schema) : CallValidateForm(data, schema)
    \/ ReturnPure

SpecPure == Init /\ [][NextPure]_vars

-----------------------------------------------------------------------------
(* The auth store, part_003:28-209.  An async action runs to its next await *)
(* in one step; the fetch and the response.json() that follows it touch no  *)
(* store state between them and are one await here.                         *)

\* the token of a login or register response, and a token handed to setToken
AccessToken == "access_token"
OtherToken == "other_token"

\* how an awaited fetch ends: response.ok, !response.ok, or a rejection
FetchOutcomes == {"ok", "notOk", "rejected"}

\* refreshUserData up to its await (lines 180-187): without a token it
\* returns, with one it waits for the company
RefreshBegin(state, op) ==
    IF state.token = Nil THEN NoTask
    ELSE [pc |-> "company", op |-> op, token |-> state.token]

\* the success branch of checkAuth, line 158: the token read at line 141 is
\* not written back
CheckAuthSuccess(state, token) ==
    set(state, [user |-> "user", isAuthenticated |-> TRUE, loading |-> FALSE])

AuthFrame ==
    /\ UNCHANGED serverVars
    /\ UNCHANGED <<analyticsState, analyticsTasks, retryRun>>

\* login(email, password) up to the fetch: lines 40-48
login(s) ==
    /\ authTasks[s] = NoTask
    /\ authState' = set(authState, [loading |-> TRUE, error |-> Nil])
    /\ authTasks' = [authTasks EXCEPT ![s] = [pc |-> "fetch", op |-> "login"]]
    /\ AuthFrame

\* the login response arrives: lines 50-78
LoginSettles(s, outcome) ==
    /\ authTasks[s].pc = "fetch"
    /\ authTasks[s].op = "login"
    /\ IF outcome = "ok"
       THEN LET state == set(authState, [isAuthenticated |-> TRUE, user |-> "user",
                                         token |-> AccessToken, loading |-> FALSE,
                                         error |-> Nil])
            IN  /\ authState' = state
                /\ authTasks' = [authTasks EXCEPT ![s] = RefreshBegin(state, "login")]
       ELSE /\ authState' = set(authState, [loading |-> FALSE, error |-> "message",
                                            isAuthenticated |-> FALSE, user |-> Nil,
                                            token |-> Nil])
            /\ authTasks' = [authTasks EXCEPT ![s] = NoTask]
    /\ AuthFrame

\* register(data) up to the fetch: lines 82-90
register(s) ==
    /\ authTasks[s] = NoTask
    /\ authState' = set(authState, [loading |-> TRUE, error |-> Nil])
    /\ authTasks' = [authTasks EXCEPT ![s] = [pc |-> "fetch", op |-> "register"]]
    /\ AuthFrame

\* the register response arrives: lines 92-119
RegisterSettles(s, outcome) ==
    /\ authTasks[s].pc = "fetch"
    /\ authTasks[s].op = "register"
    /\ authState' =
          IF outcome = "ok"
          THEN set(authState, [isAuthenticated |-> TRUE, user |-> "user",
                               company |-> "company", token |-> AccessToken,
                               loading |-> FALSE, error |-> Nil])
          ELSE set(authState, [loading |-> FALSE, error |-> "message",
                               isAuthenticated |-> FALSE, user |-> Nil,
                               company |-> Nil, token |-> Nil])
    /\ authTasks' = [authTasks EXCEPT ![s] = NoTask]
    /\ AuthFrame

\* logout(): lines 123-131
logout ==
    /\ authState' = set(authState, [isAuthenticated |-> FALSE, user |-> Nil,
                                    company |-> Nil, token |-> Nil, error |-> Nil])
    /\ UNCHANGED authTasks
    /\ AuthFrame

\* setToken(token): line 136
setToken(token) ==
    /\ authState' = set(authState, [token |-> token, isAuthenticated |-> TRUE])
    /\ UNCHANGED authTasks
    /\ AuthFrame

\* checkAuth() up to the fetch: lines 140-151; without a token it returns false
checkAuth(s) ==
    /\ authTasks[s] = NoTask
    /\ IF authState.token = Nil
       THEN UNCHANGED <<authState, authTasks>>
       ELSE /\ authState' = set(authState, [loading |-> TRUE])
            /\ authTasks' = [authTasks EXCEPT ![s] =
                    [pc |-> "fetch", op |-> "checkAuth", token |-> authState.token]]
    /\ AuthFrame

\* the /auth/me response arrives: lines 153-175
CheckAuthSettles(s, outcome) ==
    /\ authTasks[s].pc = "fetch"
    /\ authTasks[s].op = "checkAuth"
    /\ IF outcome = "ok"
       THEN LET state == CheckAuthSuccess(authState, authTasks[s].token)
            IN  /\ authState' = state
                /\ authTasks' = [authTasks EXCEPT ![s] =
                        IF state.company = Nil THEN RefreshBegin(state, "checkAuth")
                        ELSE NoTask]
       ELSE /\ authState' = set(authState, [isAuthenticated |-> FALSE, user |-> Nil,
                                            company |-> Nil, token |-> Nil,
                                            loading |-> FALSE])
            /\ authTasks' = [authTasks EXCEPT ![s] = NoTask]
    /\ AuthFrame

\* refreshUserData() called on its own, up to the fetch: lines 179-187
refreshUserData(s) ==
    /\ authTasks[s] = NoTask
    /\ authTasks' = [authTasks EXCEPT ![s] = RefreshBegin(authState, "refreshUserData")]
    /\ UNCHANGED authState
    /\ AuthFrame

\* the /companies/me response arrives, lines 189-195, and the action that
\* awaited refreshUserData returns
CompanySettles(s, outcome) ==
    /\ authTasks[s].pc = "company"
    /\ authState' = IF outcome = "ok" THEN set(authState, [company |-> "company"])
                    ELSE authState
    /\ authTasks' = [authTasks EXCEPT ![s] = NoTask]
    /\ AuthFrame

NextAuth ==
    \/ \E s \in AuthSlots : login(s)
    \/ \E s \in AuthSlots, outcome \in FetchOutcomes : LoginSettles(s, outcome)
    \/ \E s \in AuthSlots : register(s)
    \/ \E s \in AuthSlots, outcome \in FetchOutcomes : RegisterSettles(s, outcome)
    \/ logout
    \/ \E token \in {AccessToken, OtherToken} : setToken(token)
    \/ \E s \in AuthSlots : checkAuth(s)
    \/ \E s \in AuthSlots, outcome \in FetchOutcomes : CheckAuthSettles(s, outcome)
    \/ \E s \in AuthSlots : refreshUserData(s)
    \/ \E s \in AuthSlots, outcome \in FetchOutcomes : CompanySettles(s, outcome)

\* the auth store with its actions interleaved at their awaits
SpecAuth == Init /\ [][NextAuth]_vars

-----------------------------------------------------------------------------
(* The analytics store, part_001:33-127 *)

DashboardError == "Error al obtener estadisticas del dashboard"
ConversationsError == "Error al obtener metricas de conversaciones"

AnalyticsFrame ==
    /\ UNCHANGED serverVars
    /\ UNCHANGED <<authState, authTasks, retryRun>>

\* the synchronous head of fetchDashboardStats / fetchConversationMetrics:
\* lines 43 and 71
FetchBegin(state) == set(state, [loading |-> TRUE, error |-> Nil])

\* the success branch of fetchDashboardStats, lines 56-60
DashboardSuccess(state) ==
    set(state, [dashboardStats |-> "stats", loading |-> FALSE, lastUpdated |-> "date"])

\* the success branch of fetchConversationMetrics, lines 89-93
ConversationsSuccess(state) ==
    set(state, [conversationMetrics |-> "metrics", loading |-> FALSE,
                lastUpdated |-> "date"])

\* the catch blocks, lines 62-65 and 95-98
FetchFailure(state, message) == set(state, [loading |-> FALSE, error |-> message])

\* refreshAll(token) up to its await: both fetches are started, lines 103-109
refreshAll ==
    /\ analyticsTasks = NoRefresh
    /\ analyticsState' = FetchBegin(FetchBegin(analyticsState))
    /\ analyticsTasks' = [pc |-> "allSettled", dashboard |-> "pending",
                          conversations |-> "pending", recorded |-> {},
                          disturbed |-> FALSE]
    /\ AnalyticsFrame

\* fetchDashboardStats(token) called on its own, up to the fetch: lines 42-48
fetchDashboardStats ==
    /\ analyticsTasks = NoRefresh
    /\ analyticsState' = FetchBegin(analyticsState)
    /\ analyticsTasks' = [pc |-> "single", dashboard |-> "pending",
                          conversations |-> "none", recorded |-> {},
                          disturbed |-> FALSE]
    /\ AnalyticsFrame

\* fetchConversationMetrics(token) called on its own, up to the fetch: lines 70-81
fetchConversationMetrics ==
    /\ analyticsTasks = NoRefresh
    /\ analyticsState' = FetchBegin(analyticsState)
    /\ analyticsTasks' = [pc |-> "single", dashboard |-> "none",
                          conversations |-> "pending", recorded |-> {},
                          disturbed |-> FALSE]
    /\ AnalyticsFrame

\* the dashboard response arrives: lines 50-66
DashboardSettles(outcome) ==
    /\ analyticsTasks.pc \in {"allSettled", "single"}
    /\ analyticsTasks.dashboard = "pending"
    /\ analyticsState' = IF outcome = "ok" THEN DashboardSuccess(analyticsState)
                         ELSE FetchFailure(analyticsState, DashboardError)
    /\ analyticsTasks' = [analyticsTasks EXCEPT
                             !.dashboard = "settled",
                             !.recorded = IF outcome = "ok" THEN @
                                          ELSE @ \cup {DashboardError}]
    /\ AnalyticsFrame

\* the conversations response arrives: lines 83-99
ConversationsSettles(outcome) ==
    /\ analyticsTasks.pc \in {"allSettled", "single"}
    /\ analyticsTasks.conversations = "pending"
    /\ analyticsState' = IF outcome = "ok" THEN ConversationsSuccess(analyticsState)
                         ELSE FetchFailure(analyticsState, ConversationsError)
    /\ analyticsTasks' = [analyticsTasks EXCEPT
                             !.conversations = "settled",
                             !.recorded = IF outcome = "ok" THEN @
                                          ELSE @ \cup {ConversationsError}]
    /\ AnalyticsFrame

\* Promise.allSettled resolves and refreshAll returns (line 109), or the
\* fetch called on its own returns
RefreshAllReturns ==
    /\ analyticsTasks.pc \in {"allSettled", "single"}
    /\ "pending" \notin {analyticsTasks.dashboard, analyticsTasks.conversations}
    /\ analyticsTasks' = NoRefresh
    /\ UNCHANGED analyticsState
    /\ AnalyticsFrame

\* a refreshAll in flight has seen the store written by someone else
Disturbed(tasks) ==
    IF tasks = NoRefresh THEN tasks ELSE [tasks EXCEPT !.disturbed = TRUE]

\* clearError(): lines 113-115
clearError ==
    /\ analyticsState' = set(analyticsState, [error |-> Nil])
    /\ analyticsTasks' = Disturbed(analyticsTasks)
    /\ AnalyticsFrame

\* reset(): lines 118-126
reset ==
    /\ analyticsState' = InitialAnalyticsState
    /\ analyticsTasks' = Disturbed(analyticsTasks)
    /\ AnalyticsFrame

NextAnalytics ==
    \/ refreshAll
    \/ fetchDashboardStats
    \/ fetchConversationMetrics
    \/ \E outcome \in FetchOutcomes : DashboardSettles(outcome)
    \/ \E outcome \in FetchOutcomes : ConversationsSettles(outcome)
    \/ RefreshAllReturns
    \/ clearError
    \/ reset

\* the analytics store: one refreshAll or one fetch at a time, with
\* clearError and reset at any moment
SpecAnalytics == Init /\ [][NextAnalytics]_vars

-----------------------------------------------------------------------------
(* withRetry, part_006:281-310 *)

\* delay = 1000
defaultDelay == 1000

\* what fn() can throw: an ApiException with a status, or another error
\* (one of them an object that has a status but is no ApiException)
ApiException(status) == [instanceOfApiException |-> TRUE, status |-> status]
OtherError(status) == [instanceOfApiException |-> FALSE, status |-> status]
Errors ==
    {ApiException(status) : status \in {401, 403, 404, 422, 500}}
    \cup {OtherError(0), OtherError(401)}

\* what fn() can resolve to
Results == {"result"}

\* the value of lastError before any attempt
Undefined == "undefined"

\* part_006:176-178
isValidationError(error) == error.instanceOfApiException /\ error.status = 422

\* part_006:180-182
isAuthError(error) ==
    error.instanceOfApiException /\ (error.status = 401 \/ error.status = 403)

\* faulty variant: validation errors are retried
NoRetryFor_Mut(error) == isAuthError(error)

\* line 295
NoRetryFor(error) == isAuthError(error) \/ isValidationError(error)

RetryFrame ==
    /\ UNCHANGED serverVars
    /\ UNCHANGED <<authState, authTasks, analyticsState, analyticsTasks>>

\* the head of the for loop with counter i: fn is called if i <= maxRetries,
\* otherwise line 309 throws lastError
LoopHead(run, i) ==
    IF i <= run.maxRetries
    THEN [run EXCEPT !.pc = "fn", !.i = i, !.calls = @ + 1]
    ELSE [run EXCEPT !.pc = "thrown", !.i = i, !.outcome = run.lastError]

\* withRetry(fn, maxRetries, delay) is called: lines 281-290
withRetry(maxRetries, delay) ==
    /\ retryRun = NoRetry
    /\ retryRun' = LoopHead([pc |-> "start", i |-> 0, maxRetries |-> maxRetries,
                             delay |-> delay, calls |-> 0, lastError |-> Undefined,
                             outcome |-> Undefined, timer |-> 0, log |-> <<>>], 0)
    /\ RetryFrame

\* fn() resolves: line 290 returns its result
FnResolves(result) ==
    /\ retryRun.pc = "fn"
    /\ retryRun' = [retryRun EXCEPT !.pc = "returned", !.outcome = result,
                                    !.log = Append(@, [ok |-> TRUE, value |-> result])]
    /\ RetryFrame

\* fn() rejects: lines 291-305
FnRejects(error) ==
    /\ retryRun.pc = "fn"
    /\ LET run == [retryRun EXCEPT !.lastError = error,
                                   !.log = Append(@, [ok |-> FALSE, value |-> error])]
       IN  retryRun' =
              IF NoRetryFor(error) \/ run.i = run.maxRetries
              THEN [run EXCEPT !.pc = "thrown", !.outcome = error]
              ELSE [run EXCEPT !.pc = "sleep", !.timer = run.delay * (run.i + 1)]
    /\ RetryFrame

\* the timer of line 305 fires: i++ and the next turn of the loop
TimerFires ==
    /\ retryRun.pc = "sleep"
    /\ retryRun' = LoopHead([retryRun EXCEPT !.timer = 0], retryRun.i + 1)
    /\ RetryFrame

\* the caller has taken the result or the error
RetryDone ==
    /\ retryRun.pc \in {"returned", "thrown"}
    /\ retryRun' = NoRetry
    /\ RetryFrame

FnSettles ==
    \/ \E result \in Results : FnResolves(result)
    \/ \E error \in Errors : FnRejects(error)

NextRetry ==
    \/ \E maxRetries \in -1..MaxRetriesBound : withRetry(maxRetries, defaultDelay)
    \/ FnSettles
    \/ TimerFires
    \/ RetryDone

\* withRetry with an fn whose promise settles and timers that fire
SpecRetry ==
    /\ Init
    /\ [][NextRetry]_vars
    /\ WF_vars(FnSettles)
    /\ WF_vars(TimerFires)

-----------------------------------------------------------------------------
(* Claims about the rate limiter (checked under SpecRL) *)

\* C1: within the window opened by the first call for a key, the first
\* maxAttempts calls are allowed and the (maxAttempts+1)-th is rejected.
C1_FirstCallsAllowedThenRejected ==
    rlLast.made =>
        /\ rlN[rlLast.key] <= loginAttempts => rlLast.allowed
        /\ rlN[rlLast.key] = loginAttempts + 1 => ~rlLast.allowed

C1_Witness ==
    /\ rlLast.made
    /\ rlN[rlLast.key] = loginAttempts + 1
    /\ ~rlLast.allowed

\* C2: a call made later than t0 + windowMs, t0 the time of the call that
\* opened the key's window, is allowed and replaces the entry by
\* {count: 1, resetTime: now + windowMs}, whatever happened in the old window.
C2_ExpiredWindowReset ==
    (rlLast.made /\ rlLast.opened) =>
        /\ rlLast.allowed
        /\ rlLast.after = [count |-> 1, resetTime |-> now + loginWindowMs]

C2_Witness ==
    /\ rlLast.made
    /\ rlLast.opened
    /\ rlLast.before.count = loginAttempts
    /\ rlLast.after.count = 1

\* C3: no entry's count exceeds maxAttempts, and a call that finds an expired
\* entry replaces it by a fresh one instead of incrementing it.
C3_CountBounded ==
    /\ \A k \in DOMAIN rateLimitStore : rateLimitStore[k].count <= loginAttempts
    /\ (rlLast.made /\ rlLast.before # NoEntry /\ now > rlLast.before.resetTime) =>
            rlLast.after = [count |-> 1, resetTime |-> now + loginWindowMs]

C3_Witness ==
    /\ rlLast.made
    /\ rlLast.before # NoEntry
    /\ now > rlLast.before.resetTime
    /\ \E k \in DOMAIN rateLimitStore : rateLimitStore[k].count = loginAttempts

-----------------------------------------------------------------------------
(* Claims about the CSRF token manager (checked under SpecCsrf) *)

Issued == 1..uuidCount

\* C4 as stated: for every issued token, the first validation returns true
\* and every later one returns false.
C4_FirstValidationTrue ==
    \A t \in DOMAIN csrfHist \cap Issued :
        /\ csrfHist[t].first
        /\ ~csrfHist[t].laterTrue

\* C4 amended: the first validation of an issued token returns true unless
\* the token was evicted by generateCSRFToken's clean-up before it, in which
\* case it returns false; every later validation returns false.
C4_FirstValidationTrueUnlessEvicted ==
    \A t \in DOMAIN csrfHist \cap Issued :
        /\ csrfHist[t].first <=> t \notin csrfEvicted
        /\ ~csrfHist[t].laterTrue

C4_Witness ==
    \E t \in DOMAIN csrfHist \cap Issued, u \in DOMAIN csrfHist \cap Issued :
        /\ csrfHist[t].calls = 2 /\ csrfHist[t].first
        /\ csrfHist[u].calls = 2 /\ ~csrfHist[u].first /\ u \in csrfEvicted

\* C5: the active set never holds more than 100 tokens, and every evicted
\* token was generated before every token still in the set.
C5_KeepNewest100 ==
    /\ Len(csrfTokens) <= CsrfKeep
    /\ \A e \in csrfEvicted : \A t \in Range(csrfTokens) : e < t

C5_Witness ==
    /\ Len(csrfTokens) = CsrfKeep
    /\ Cardinality(csrfEvicted) >= 2
    /\ \E t \in DOMAIN csrfHist \cap Issued : csrfHist[t].first

-----------------------------------------------------------------------------
(* Claims about the middleware (checked under SpecConc and SpecMW) *)

\* invocations suspended at await request.formData() that passed the CSRF
\* check with token t
PassedWith(t) ==
    {s \in Slots : /\ requests[s] # Idle
                   /\ requests[s].pc = "formData"
                   /\ requests[s].obs.csrfValid
                   /\ PresentedToken(requests[s].req) = t}

\* C6: of the requests carrying one CSRF token, in flight together and
\* interleaving at their awaits, at most one passes the CSRF validation.
C6_AtMostOnePassesPerToken ==
    \A t \in Issued :
        /\ Cardinality(PassedWith(t)) <= 1
        /\ t \in DOMAIN csrfHist => ~(csrfHist[t].first /\ csrfHist[t].laterTrue)

C6_Witness ==
    /\ PassedWith(1) # {}
    /\ mwLast.done
    /\ PresentedToken(mwLast.req) = 1
    /\ mwLast.obs.csrfCalled
    /\ ~mwLast.obs.csrfValid
    /\ mwLast.response.status = "403"

CsrfRejected(l) ==
    l.response.status = "403" /\ l.response.error = "CSRF token missing or invalid"

C8_TokensIssuedOnlyOnPageGets ==
    [][(Range(csrfTokens') \ Range(csrfTokens) # {}) =>
          /\ mwLast'.done
          /\ mwLast'.obs.issued = Range(csrfTokens') \ Range(csrfTokens)
          /\ mwLast'.req.method = "GET"
          /\ \E page \in {StrLogin, StrRegister, StrDashboard} :
                Includes(mwLast'.req.pathname, page)
          /\ cfg.enableCSRF
          /\ ~IsStaticAsset(mwLast'.req.pathname)
          /\ mwLast'.response.status = "downstream"]_vars

C8_Witness ==
    /\ mwLast.done
    /\ mwLast.obs.issued = {1}
    /\ mwLast.req.pathname = PathDashboard
    /\ 1 \in Range(csrfTokens)

\* what the claim C9 takes for the origin of the request
ClaimedOriginAllowed(req, allowed) ==
    IF req.origin # None
    THEN req.origin \in Range(allowed)
    ELSE \E a \in Range(allowed) : req.referer = a \/ StartsWith(req.referer, a \o <<"/">>)

\* C9: validateOrigin returns true without Origin and Referer, returns true
\* when the allow-list is empty, and otherwise returns true exactly when the
\* Origin (or the origin of the Referer) is in the allow-list; false is
\* answered 403.
C9_ValidateOriginDecides ==
    (mwLast.done /\ mwLast.obs.origin # "unchecked") =>
        LET req == mwLast.req
            expected == \/ req.origin = None /\ req.referer = None
                        \/ Len(cfg.allowedOrigins) = 0
                        \/ ClaimedOriginAllowed(req, cfg.allowedOrigins)
        IN  /\ mwLast.obs.origin = IF expected THEN "true" ELSE "false"
            /\ mwLast.obs.origin = "false" =>
                  mwLast.response.status = "403" /\ mwLast.response.error = "Invalid origin"

\* C10: every invocation of onRequest ends in a response: the downstream
\* response, the 200 preflight response, or a JSON 429 / 403.
C10_NoExceptionEscapes ==
    mwLast.done => mwLast.response.status \in {"downstream", "200", "429", "403"}

-----------------------------------------------------------------------------
(* Claims about the request the route handler sees, recovery from a         *)
(* rejection, the scope of the rate limiter and the security headers         *)

\* C11: for a form-encoded POST whose body parses, the route handler finds
\* the sanitized form value in the request it is given, never the raw one.
C11_HandlerSeesSanitizedBody ==
    (mwLast.done /\ IsFormPost(mwLast.req) /\ mwLast.obs.replaced) =>
        mwLast.obs.seenBody = sanitizeInput(mwLast.req.body)

\* C12: once checkRateLimit has rejected a call for a key with reset time r,
\* every call for the key made while it is blocked returns the same r and
\* leaves the entry as it is, and the first call made later than r is allowed.
C12_BlockedKeyRecovers ==
    (rlLast.made /\ rlLast.blockedUntil # NoResetTime) =>
        /\ now > rlLast.blockedUntil => rlLast.allowed
        /\ ~rlLast.allowed =>
              /\ rlLast.resetTime = rlLast.blockedUntil
              /\ rlLast.after = rlLast.before
              /\ rlLast.after.resetTime = rlLast.blockedUntil

C12_Witness ==
    /\ rlLast.made
    /\ rlLast.blockedUntil # NoResetTime
    /\ now > rlLast.blockedUntil
    /\ rlLast.allowed
    /\ rlLast.before.count = loginAttempts

\* the requests a step works on: the one it completes, and those it moves
\* to their next await
StepRequests ==
    (IF mwLast'.done THEN {mwLast'.req} ELSE {})
    \cup {requests'[s].req : s \in {x \in Slots : /\ requests'[x] # Idle
                                                   /\ requests'[x] # requests[x]}}

\* the requests C13 exempts from rate limiting
NotRateLimited(req) ==
    \/ ~cfg.enableRateLimiting
    \/ ~\E part \in {StrLogin, StrRegister, StrApi, StrAuth} :
            \E i \in 1..(Len(req.pathname) - Len(part) + 1) :
                \A k \in 1..Len(part) : req.pathname[i + k - 1] = part[k]
    \/ \E suffix \in StaticSuffixes : EndsWith(req.pathname, suffix)
    \/ StartsWith(req.pathname, StrAstro)
    \/ StartsWith(req.pathname, StrFavicon)
    \/ req.method = "OPTIONS"

\* C13: a step that works on a request whose path contains none of /login,
\* /register, /api/, /auth/, or on a static-asset or OPTIONS request, or on any
\* request while rate limiting is disabled, leaves the rate-limit store
\* unchanged and does not answer 429.
C13_RateLimitOnlySensitivePaths ==
    [][\A req \in StepRequests :
          NotRateLimited(req) =>
              /\ rateLimitStore' = rateLimitStore
              /\ mwLast'.done => mwLast'.response.status # "429"]_vars

\* a request to a path that is not sensitive completes while the store holds
\* the entry of a blocked key
C13_Witness ==
    /\ mwLast.done
    /\ mwLast.req.pathname = PathAbout
    /\ mwLast.req.method = "POST"
    /\ mwLast.response.status = "downstream"
    /\ cfg.enableRateLimiting
    /\ \E k \in DOMAIN rateLimitStore : rateLimitStore[k].count = loginAttempts

\* C14: every response onRequest returns for a request that is no static
\* asset carries the seven security headers with the values of securityHeaders.
C14_SecurityHeadersOnEveryResponse ==
    (/\ mwLast.done
     /\ ~IsStaticAsset(mwLast.req.pathname)
     /\ mwLast.response.status \in {"downstream", "200", "429", "403"}) =>
        \A name \in SecurityHeaderNames :
            /\ name \in DOMAIN mwLast.response.headers
            /\ mwLast.response.headers[name] = securityHeaders[name]

C14_Witness ==
    /\ mwLast.done
    /\ mwLast.response.status = "429"
    /\ mwLast.response.headers["X-Frame-Options"] = "DENY"
    /\ mwLast.response.headers["X-RateLimit-Remaining"] = 0

-----------------------------------------------------------------------------
(* Claims about the pure helpers (checked under SpecPure) *)

\* C15 as stated: getClientIP returns the value of the first header that is
\* present, in the order cf-connecting-ip, x-real-ip, x-forwarded-for (its
\* first comma-separated entry), x-client-ip, and 127.0.0.1 when none is; a
\* header further down is never used when one before it is present.
C15_FirstPresentHeader ==
    pureCall.op = "getClientIP" =>
        LET req == pureCall.req
        IN  pureCall.result =
                IF req.cfConnectingIp # None THEN req.cfConnectingIp
                ELSE IF req.xRealIp # None THEN req.xRealIp
                ELSE IF req.xForwardedFor # None
                     THEN SubSeq(req.xForwardedFor, 1,
                                 IndexFrom(req.xForwardedFor, ",", 1) - 1)
                ELSE IF req.xClientIp # None THEN req.xClientIp
                ELSE StrLoopback

\* C15 amended: getClientIP returns the first non-empty candidate of
\* cf-connecting-ip, x-real-ip, the first comma-separated entry of
\* x-forwarded-for, x-client-ip, 127.0.0.1: an x-forwarded-for header whose
\* first entry is empty is passed over like an absent header.
C15_FirstNonEmptyCandidate ==
    pureCall.op = "getClientIP" =>
        LET req == pureCall.req
            candidates == <<req.cfConnectingIp, req.xRealIp,
                            SubSeq(req.xForwardedFor, 1,
                                   IndexFrom(req.xForwardedFor, ",", 1) - 1),
                            req.xClientIp, StrLoopback>>
            first == CHOOSE i \in 1..Len(candidates) :
                        /\ Len(candidates[i]) > 0
                        /\ \A j \in 1..(i - 1) : Len(candidates[j]) = 0
        IN  pureCall.result = candidates[first]

C15_Witness ==
    /\ pureCall.op = "getClientIP"
    /\ pureCall.req.cfConnectingIp = None
    /\ pureCall.req.xRealIp = None
    /\ pureCall.req.xForwardedFor = XffLeadingComma
    /\ pureCall.req.xClientIp = IpB
    /\ pureCall.result = IpB

\* the five steps in the order the sanitizer policy gives them
PolicySanitize(s) ==
    LET noBrackets == SelectSeq(s, LAMBDA c : c # "<" /\ c # ">")
        noProtocol == RemoveJavascript(noBrackets)
        noHandlers == RemoveEventHandlers(noProtocol)
        trimmed == trim(noHandlers)
    IN  SubSeq(trimmed, 1, IF Len(trimmed) < SanitizedMaxLength
                           THEN Len(trimmed) ELSE SanitizedMaxLength)

\* C16: sanitizeInput and Validator.sanitizeString both return, for every
\* input, the result of removing '<' and '>', then 'javascript:', then
\* 'on<word>=', then trimming, then truncating; so they agree.
C16_SanitizersFollowPolicyOrder ==
    pureCall.op \in {"sanitizeInput", "sanitizeString"} =>
        pureCall.result = PolicySanitize(pureCall.input)

\* C17: the result of sanitizeInput and of Validator.sanitizeString contains
\* neither '<' nor '>'.
C17_NoAngleBrackets ==
    pureCall.op \in {"sanitizeInput", "sanitizeString"} =>
        \A i \in 1..Len(pureCall.result) : pureCall.result[i] \notin {"<", ">"}

C17_Witness ==
    /\ pureCall.op = "sanitizeString"
    /\ \E i \in 1..Len(pureCall.input) : pureCall.input[i] = "<"
    /\ \E i \in 1..Len(pureCall.input) : pureCall.input[i] = ">"
    /\ Len(pureCall.result) = SanitizedMaxLength

\* does s hold 'javascript:' in any mix of cases
HoldsJavascript(s) ==
    \E i \in 1..Len(s) : MatchesAt(s, i, <<"j", "a", "v", "a", "s", "c", "r", "i", "p", "t", ":">>)

\* C18: the result of sanitizeInput and of Validator.sanitizeString holds no
\* 'javascript:' in any mix of cases, and sanitizing it again changes nothing.
C18_NoJavascriptAndIdempotent ==
    /\ pureCall.op \in {"sanitizeInput", "sanitizeString"} =>
            ~HoldsJavascript(pureCall.result)
    /\ pureCall.op = "sanitizeInput" => sanitizeInput(pureCall.result) = pureCall.result
    /\ pureCall.op = "sanitizeString" => sanitizeString(pureCall.result) = pureCall.result

\* C19: the result of sanitizeEmail holds no upper-case letter, neither
\* starts nor ends with white space, consists of word characters, '@', '.'
\* and '-' only, and is at most 254 characters long.
C19_EmailNormalised ==
    pureCall.op = "sanitizeEmail" =>
        LET r == pureCall.result
        IN  /\ \A i \in 1..Len(r) :
                  /\ r[i] \notin Range(UpperCase) \cup {CharUpperEAcute, CharUpperIDot}
                  /\ r[i] \in Letters \cup Digits \cup {"_", "@", ".", "-"}
            /\ Len(r) > 0 => (r[1] \notin WhiteSpace /\ r[Len(r)] \notin WhiteSpace)
            /\ Len(r) <= EmailMaxLength

C19_Witness ==
    /\ pureCall.op = "sanitizeEmail"
    /\ pureCall.input = <<" ">> \o LongEmail \o <<"!">>
    /\ Len(pureCall.result) = EmailMaxLength
    /\ pureCall.result[2] = "a"

\* a value that is empty (null, undefined, '') or white space only
Blank(v) ==
    \/ v.type \in {"null", "undefined"}
    \/ v.type = "string" /\ \A i \in 1..Len(v.str) : v.str[i] \in WhiteSpace

\* C20: validateField on a rule with required = true and a value whose
\* sanitized form is empty or white space only returns isValid = false with
\* exactly one error; no length, pattern or custom check is evaluated and
\* rules.custom is not called.
C20_RequiredShortCircuits ==
    (/\ pureCall.op = "validateField"
     /\ pureCall.rules.required
     /\ Blank(pureCall.result.sanitizedValue)) =>
        /\ ~pureCall.result.isValid
        /\ Len(pureCall.result.errors) = 1
        /\ pureCall.result.executed = {}
        /\ pureCall.result.customCalls = 0

C20_Witness ==
    /\ pureCall.op = "validateField"
    /\ pureCall.rules.required
    /\ pureCall.rules.sanitize = "sanitizeString"
    /\ pureCall.rules.custom = "reject"
    /\ pureCall.rules.minLength = 3
    /\ pureCall.value = StringValue(<<"<", " ", ">">>)
    /\ pureCall.result.sanitizedValue = StringValue(<<" ">>)
    /\ Len(pureCall.result.errors) = 1

\* a value that is empty: null, undefined or the empty string
EmptyValue(v) ==
    \/ v.type \in {"null", "undefined"}
    \/ v.type = "string" /\ Len(v.str) = 0

\* the errors of the configured checks that fail on the value v, in the
\* order minLength, maxLength, pattern, custom
FailingChecks(rules, v) ==
    LET str == toString(v)
        customResult == CustomResult(rules.custom, v)
    IN  (IF rules.minLength # 0 /\ Len(str) < rules.minLength
         THEN <<"Debe tener al menos ${rules.minLength} caracteres">> ELSE <<>>)
        \o (IF rules.maxLength # 0 /\ Len(str) > rules.maxLength
            THEN <<"No puede tener mas de ${rules.maxLength} caracteres">> ELSE <<>>)
        \o (IF rules.pattern # "none" /\ ~PatternTest(rules.pattern, str)
            THEN <<"El formato no es valido">> ELSE <<>>)
        \o (IF rules.custom = "none" THEN <<>>
            ELSE IF customResult.type = "string" THEN <<customResult.str>>
            ELSE IF customResult.bool THEN <<>>
            ELSE <<"El valor no es valido">>)

\* the value the checks are to be run against
SanitizedOf(rules, value) ==
    IF rules.sanitize = "sanitizeString" /\ value.type = "string"
    THEN StringValue(sanitizeString(value.str))
    ELSE IF rules.sanitize = "sanitizeEmail" /\ value.type = "string"
    THEN StringValue(sanitizeEmail(value.str))
    ELSE value

\* C21: for a non-empty value (one whose sanitized form is not null,
\* undefined or '' and that the required test of C20 does not stop),
\* validateField returns one error for each configured check that fails on
\* the sanitized value, all of them, and isValid is true exactly when the
\* errors list is empty.
C21_AllChecksOnSanitizedValue ==
    (/\ pureCall.op = "validateField"
     /\ ~EmptyValue(SanitizedOf(pureCall.rules, pureCall.value))
     /\ ~(pureCall.rules.required /\ Blank(SanitizedOf(pureCall.rules, pureCall.value)))) =>
        /\ pureCall.result.errors
               = FailingChecks(pureCall.rules, SanitizedOf(pureCall.rules, pureCall.value))
        /\ pureCall.result.isValid <=> (Len(pureCall.result.errors) = 0)

\* the same for the values JavaScript takes as true, the only ones for which
\* the code reaches the checks
C21_ChecksOnTruthyValue ==
    (/\ pureCall.op = "validateField"
     /\ ~Falsy(SanitizedOf(pureCall.rules, pureCall.value))
     /\ ~(pureCall.rules.required /\ Blank(SanitizedOf(pureCall.rules, pureCall.value)))) =>
        /\ pureCall.result.errors
               = FailingChecks(pureCall.rules, SanitizedOf(pureCall.rules, pureCall.value))
        /\ pureCall.result.isValid <=> (Len(pureCall.result.errors) = 0)

\* three checks fail at once on a sanitized value that differs from the raw one
C21_ChecksOnTruthyValue_Witness ==
    /\ pureCall.op = "validateField"
    /\ pureCall.value = StringValue(<<"<", "b", ">", "a", "b", "c", "d">>)
    /\ pureCall.rules.sanitize = "sanitizeString"
    /\ pureCall.result.sanitizedValue = StringValue(<<"b", "a", "b", "c", "d">>)
    /\ Len(pureCall.result.errors) = 3
    /\ ~pureCall.result.isValid

\* the schema's rules for a field name
RulesOf(schema, fieldName) ==
    (CHOOSE i \in 1..Len(schema) : schema[i][1] = fieldName)

FieldResult(data, schema, fieldName) ==
    validateField(DataGet(data, fieldName), schema[RulesOf(schema, fieldName)][2])

\* C22: validateForm returns errors with exactly the schema fields whose
\* validateField result is invalid as keys (each with that result's errors),
\* sanitizedData with every schema field (valid or not, present in the data
\* or not), and isValid exactly when errors is empty; each field's outcome
\* is that of validateField on that field alone.
C22_FormCollectsEveryField ==
    pureCall.op = "validateForm" =>
        LET data == pureCall.data
            schema == pureCall.schema
            result == pureCall.result
        IN  /\ DOMAIN result.errors
                   = {f \in FieldNames(schema) : ~FieldResult(data, schema, f).isValid}
            /\ \A f \in DOMAIN result.errors :
                   result.errors[f] = FieldResult(data, schema, f).errors
            /\ DOMAIN result.sanitizedData = FieldNames(schema)
            /\ \A f \in FieldNames(schema) :
                   result.sanitizedData[f] = FieldResult(data, schema, f).sanitizedValue
            /\ result.isValid <=> (DOMAIN result.errors = {})

\* validateForm({email: 'bad', password: ''}, login): both fields fail and
\* both sanitized values are returned
C22_Witness ==
    /\ pureCall.op = "validateForm"
    /\ pureCall.schema = LoginSchema
    /\ DOMAIN pureCall.data = {"email", "password"}
    /\ pureCall.data["email"] = StringValue(<<"b", "a", "d">>)
    /\ DOMAIN pureCall.result.errors = {"email", "password"}
    /\ DOMAIN pureCall.result.sanitizedData = {"email", "password"}
    /\ pureCall.result.sanitizedData["email"] = StringValue(<<"b", "a", "d">>)
    /\ ~pureCall.result.isValid

\* C24: with required = true the required-field error is reported exactly
\* when the sanitized value is null, undefined, '' or white space only; the
\* number 0 and the boolean false go on to the checks, and the chatbot
\* schema accepts a temperature exactly when its numeric value is in [0, 1].
C24_RequiredOnlyForEmptyValues ==
    (pureCall.op = "validateField" /\ pureCall.rules.required) =>
        /\ (pureCall.result.errors = <<"Este campo es requerido">>)
               <=> Blank(pureCall.result.sanitizedValue)
        /\ (pureCall.rules = ChatbotTemperatureRule
                /\ pureCall.value.type \in {"number", "string"}) =>
               (pureCall.result.isValid
                   <=> TemperatureInRange(sanitizeNumber(pureCall.value)))

\* C23: when request.formData() fails for a form-encoded POST, context.request
\* is left as it was (not replaced, its form value untouched), the failure
\* produces no error response, and the invocation goes on to return the
\* downstream response with the headers the pipeline set.
C23_ParseFailureFailsOpen ==
    (mwLast.done /\ mwLast.obs.parseFailed) =>
        /\ IsFormPost(mwLast.req)
        /\ ~mwLast.obs.replaced
        /\ mwLast.obs.finalBody = mwLast.req.body
        /\ mwLast.response.status = "downstream"
        /\ mwLast.response.error = "none"
        /\ \A h \in SecurityHeaderNames :
               mwLast.response.headers[h] = securityHeaders[h]

C23_Witness ==
    /\ mwLast.done
    /\ mwLast.obs.parseFailed
    /\ mwLast.req.body = BodyMarkup
    /\ mwLast.obs.finalBody = BodyMarkup
    /\ mwLast.response.status = "downstream"

\* C27: a request that is not a static asset is handed to the route handler
\* exactly once, and the invocation that runs the rate-limit, CSRF and origin
\* checks (and answers 429 or 403) is one that had called next() in an
\* earlier step: the handler ran before the checks.
C27_HandlerOnceBeforeChecks ==
    [][(mwLast'.done /\ ~mwLast.done /\ ~IsStaticAsset(mwLast'.req.pathname)) =>
          /\ mwLast'.obs.handled = 1
          /\ \E s \in Slots :
                 /\ requests[s] # Idle
                 /\ requests[s].pc \in {"next", "formData"}
                 /\ requests[s].req = mwLast'.req
                 /\ requests'[s] = Idle]_vars

\* the handler has run for a request answered with 429
C27_Witness ==
    /\ mwLast.done
    /\ ~IsStaticAsset(mwLast.req.pathname)
    /\ mwLast.response.status = "429"
    /\ mwLast.obs.rateChecked
    /\ mwLast.obs.handled = 1

\* C25: a checkRateLimit call that returns allowed = false changes no entry
\* of the store (the key's count and resetTime included), and the resetTime
\* it returns is the stored one and is not earlier than the time of the call.
C25_RejectionLeavesStore ==
    [][(rlLast'.made /\ ~rlLast'.allowed) =>
          /\ rateLimitStore' = rateLimitStore
          /\ rlLast'.key \in DOMAIN rateLimitStore
          /\ rlLast'.resetTime = rateLimitStore[rlLast'.key].resetTime
          /\ rlLast'.resetTime >= now']_vars

\* a call rejected at the very instant its window ends, with another key in
\* the store
C25_Witness ==
    /\ rlLast.made
    /\ ~rlLast.allowed
    /\ rlLast.resetTime = now
    /\ rlLast.after = rlLast.before
    /\ rlLast.before.count = loginAttempts
    /\ \E k \in DOMAIN rateLimitStore : k # rlLast.key

\* C26: a call of checkRateLimit for one (identity, route) pair leaves the
\* entry (count and resetTime) that the store holds for every other pair as
\* it was, whatever strings the identity and the route are.
C26_PairsIndependent ==
    pureCall.op = "checkRateLimit" =>
        \A other \in KeyPairs :
            other # [ip |-> pureCall.ip, endpoint |-> pureCall.endpoint] =>
                StoreGet(rateLimitStore, RateKey(other.ip, other.endpoint))
                    = StoreGet(pureCall.before, RateKey(other.ip, other.endpoint))

-----------------------------------------------------------------------------
(* Claims about the client's stores and withRetry *)

\* C28: in every reachable state of the auth store, whatever the
\* interleaving of login, register, checkAuth, refreshUserData, setToken and
\* logout, isAuthenticated = true implies that token is not null.
C28_AuthenticatedHasToken ==
    authState.isAuthenticated => authState.token # Nil

\* C29: while a refreshAll is in flight (and nobody else writes the store),
\* loading is true as long as one of its two fetches is pending and false
\* once both have settled, and an error recorded by one of the fetches is
\* still in the store after the other one has settled.
C29_LoadingUntilBothSettled ==
    (analyticsTasks.pc = "allSettled" /\ ~analyticsTasks.disturbed) =>
        /\ analyticsState.loading
               <=> "pending" \in {analyticsTasks.dashboard, analyticsTasks.conversations}
        /\ analyticsTasks.recorded # {} => analyticsState.error \in analyticsTasks.recorded

\* an error that withRetry does not retry
NonRetryable(entry) ==
    /\ ~entry.ok
    /\ entry.value.instanceOfApiException
    /\ entry.value.status \in {401, 403, 422}

\* what each state of a withRetry call must satisfy
RetryInvariant ==
    retryRun.pc # "idle" =>
        LET log == retryRun.log
            n == Len(log)
        IN  /\ retryRun.calls <= retryRun.maxRetries + 1
            /\ retryRun.calls = IF retryRun.pc = "fn" THEN n + 1 ELSE n
            /\ \A k \in 1..(n - 1) : ~log[k].ok /\ ~NonRetryable(log[k])
            /\ retryRun.pc = "returned" =>
                   /\ log[n].ok
                   /\ retryRun.outcome = log[n].value
            /\ retryRun.pc = "thrown" =>
                   /\ n > 0 => (~log[n].ok /\ retryRun.outcome = log[n].value)
                   /\ n = 0 => retryRun.maxRetries < 0
                   /\ n > 0 => (NonRetryable(log[n]) \/ n = retryRun.maxRetries + 1)
            /\ retryRun.pc \in {"fn", "sleep"} =>
                   /\ n <= retryRun.maxRetries
                   /\ n > 0 => (~log[n].ok /\ ~NonRetryable(log[n]))

\* C30: withRetry invokes fn at most maxRetries + 1 times; it returns the
\* result of the first successful invocation and invokes fn no further, it
\* rethrows at once an ApiException of status 401, 403 or 422, it rethrows
\* the error of the last attempt once maxRetries + 1 attempts have failed;
\* and every call of it ends (returns or throws).
C30_WithRetryTerminates ==
    /\ []RetryInvariant
    /\ (retryRun.pc \in {"fn", "sleep"}) ~> (retryRun.pc \in {"returned", "thrown"})

\* the fourth attempt of a call with maxRetries = 3 fails and is rethrown
C30_Witness ==
    /\ retryRun.pc = "thrown"
    /\ retryRun.maxRetries = 3
    /\ retryRun.calls = 4
    /\ retryRun.outcome = ApiException(500)
    /\ retryRun.log[1].value = OtherError(401)

====
